---- MODULE Spec2Model ----
(***************************************************************************)
(* Health MCP server (src/tools/health-mcp/src/health_mcp.py).             *)
(*                                                                         *)
(* Two tool operations are modelled: the import of a directory of JSON     *)
(* health files into the store (snowflake_import_analyze_health_records_v2)*)
(* and the natural-language query bridge (execute_health_query_v2).  Both  *)
(* handlers are `async def` without any await, so the host runs each call  *)
(* to completion before the next one starts: one call is in progress at a  *)
(* time, and `pc` is its position.                                         *)
(*                                                                         *)
(* Strings that the code inspects character by character (dates) are       *)
(* sequences of one-character strings; other strings are TLA+ strings.     *)
(***************************************************************************)
EXTENDS Integers, Sequences, FiniteSets, TLC

\* ------------------------------------------------------------------ bounds
MaxCalls == 2        \* tool calls served in one behaviour of Spec
MaxFiles == 2        \* source files found in a directory
MaxEntries == 1      \* entries of one JSON document
MaxItems == 2        \* content items of a translation response
MaxStatRecords == 3  \* records handed to the statistics aggregator
MaxValueLen == 3     \* characters of a raw Test_Value / Vital_Value
MaxRows == 2         \* rows a generated statement returns
MaxAccountLen == 3   \* characters of an account identifier before its suffix

\* --------------------------------------------------------- generic helpers
SeqsUpTo(S, n) == UNION {[1..k -> S] : k \in 0..n}

Contains(s, c) == \E i \in 1..Len(s) : s[i] = c

\* w in s, for strings as sequences of characters
HasSub(s, w) == \E i \in 1..(Len(s) - Len(w) + 1) : SubSeq(s, i, i + Len(w) - 1) = w

Uppers ==
    <<"A", "B", "C", "D", "E", "F", "G", "H", "I", "J", "K", "L", "M", "N", "O", "P", "Q", "R", "S", "T", "U", "V", "W", "X", "Y", "Z",
      "À", "Á", "Â", "Ã", "Ä", "Å", "Æ", "Ç", "È", "É", "Ê", "Ë", "Ì", "Í", "Î", "Ï", "Ð", "Ñ", "Ò", "Ó", "Ô", "Õ", "Ö", "Ø", "Ù", "Ú", "Û", "Ü", "Ý", "Þ">>

Lowers ==
    <<"a", "b", "c", "d", "e", "f", "g", "h", "i", "j", "k", "l", "m", "n", "o", "p", "q", "r", "s", "t", "u", "v", "w", "x", "y", "z",
      "à", "á", "â", "ã", "ä", "å", "æ", "ç", "è", "é", "ê", "ë", "ì", "í", "î", "ï", "ð", "ñ", "ò", "ó", "ô", "õ", "ö", "ø", "ù", "ú", "û", "ü", "ý", "þ">>

\* str.lower() over the characters a string of this module can hold (code
\* points below 256): the letters of Uppers change, nothing else does.
Lower(s) ==
    [i \in 1..Len(s) |-> IF \E k \in DOMAIN Uppers : Uppers[k] = s[i]
                         THEN Lowers[CHOOSE k \in DOMAIN Uppers : Uppers[k] = s[i]]
                         ELSE s[i]]

\* str.upper() of one character: the letters of Lowers, the sharp s (two
\* letters) and the two letters whose capital has a code point above 255,
\* named here by that code point.
UpperChar(c) ==
    IF \E k \in DOMAIN Lowers : Lowers[k] = c
    THEN <<Uppers[CHOOSE k \in DOMAIN Lowers : Lowers[k] = c]>>
    ELSE IF c = "ß" THEN <<"S", "S">>
    ELSE IF c = "ÿ" THEN <<"U+0178">>
    ELSE IF c = "µ" THEN <<"U+039C">>
    ELSE <<c>>

\* str.upper()
RECURSIVE Upper(_)
Upper(s) == IF s = <<>> THEN <<>> ELSE UpperChar(Head(s)) \o Upper(Tail(s))

\* ------------------------------------------------------------------- dates
\* A calendar date is <<year, month, day>>; None is <<>> (falsy, as in Python).
NoDate == <<>>
\* dict.get(key) of a missing key, for a value that is otherwise a string of
\* characters: a one-element sequence no real string equals.
AbsentStr == <<"<absent>">>

Digits == {"0", "1", "2", "3", "4", "5", "6", "7", "8", "9"}

DigitVal(c) ==
    CASE c = "0" -> 0 [] c = "1" -> 1 [] c = "2" -> 2 [] c = "3" -> 3
      [] c = "4" -> 4 [] c = "5" -> 5 [] c = "6" -> 6 [] c = "7" -> 7
      [] c = "8" -> 8 [] c = "9" -> 9

AllDigits(s) == \A i \in 1..Len(s) : s[i] \in Digits

RECURSIVE Num(_)
Num(s) == IF s = <<>> THEN 0
          ELSE Num(SubSeq(s, 1, Len(s) - 1)) * 10 + DigitVal(s[Len(s)])

\* The decimal digits of n, zero-padded to width w (format spec 0wd).
RECURSIVE Pad(_, _)
Pad(n, w) ==
    IF w = 0 THEN <<>>
    ELSE Append(Pad(n \div 10, w - 1), CHOOSE c \in Digits : DigitVal(c) = n % 10)

IsLeap(y) == (y % 4 = 0 /\ y % 100 # 0) \/ y % 400 = 0

DaysInMonth(y, m) ==
    IF m = 2 THEN (IF IsLeap(y) THEN 29 ELSE 28)
    ELSE IF m \in {4, 6, 9, 11} THEN 30 ELSE 31

\* datetime(y, m, d): the constructor's range checks.
ValidDate(y, m, d) ==
    /\ y >= 1 /\ y <= 9999
    /\ m >= 1 /\ m <= 12
    /\ d >= 1 /\ d <= DaysInMonth(y, m)

\* strptime's %m and %d groups when they span two characters.
Month2(a, b) == \/ a = "1" /\ b \in {"0", "1", "2"}
                \/ a = "0" /\ b \in Digits \ {"0"}
Day2(a, b) == \/ a = "3" /\ b \in {"0", "1"}
              \/ a \in {"1", "2"} /\ b \in Digits
              \/ a \in {"0", " "} /\ b \in Digits \ {"0"}
DayVal(a, b) == IF a = " " THEN DigitVal(b) ELSE Num(<<a, b>>)

\* datetime.strptime(s, '%Y-%m-%d').date() for a 10-character s; NoDate
\* stands for the ValueError the caller catches.
StrptimeYMD(s) ==
    IF /\ Len(s) = 10
       /\ AllDigits(SubSeq(s, 1, 4)) /\ s[5] = "-"
       /\ Month2(s[6], s[7]) /\ s[8] = "-" /\ Day2(s[9], s[10])
       /\ ValidDate(Num(SubSeq(s, 1, 4)), Num(SubSeq(s, 6, 7)), DayVal(s[9], s[10]))
    THEN <<Num(SubSeq(s, 1, 4)), Num(SubSeq(s, 6, 7)), DayVal(s[9], s[10])>>
    ELSE NoDate

\* datetime.strptime(s, '%m/%d/%Y').date() for a 10-character s.
StrptimeMDY(s) ==
    IF /\ Len(s) = 10
       /\ Month2(s[1], s[2]) /\ s[3] = "/" /\ Day2(s[4], s[5]) /\ s[6] = "/"
       /\ AllDigits(SubSeq(s, 7, 10))
       /\ ValidDate(Num(SubSeq(s, 7, 10)), Num(SubSeq(s, 1, 2)), DayVal(s[4], s[5]))
    THEN <<Num(SubSeq(s, 7, 10)), Num(SubSeq(s, 1, 2)), DayVal(s[4], s[5])>>
    ELSE NoDate

\* str.replace('Z', '+00:00')
RECURSIVE ReplaceZ(_)
ReplaceZ(s) ==
    IF s = <<>> THEN <<>>
    ELSE (IF Head(s) = "Z" THEN <<"+", "0", "0", ":", "0", "0">> ELSE <<Head(s)>>)
         \o ReplaceZ(Tail(s))

\* The characters with a code point from 128 to 255: each is two bytes of the
\* UTF-8 string that datetime.fromisoformat works on.
NonAscii ==
    {"", "", "", "", "", "", "", "", "", "", "", "", "", "", "", "",
     "", "", "", "", "", "", "", "", "", "", "", "", "", "", "", "",
     " ", "¡", "¢", "£", "¤", "¥", "¦", "§", "¨", "©", "ª", "«", "¬", "­", "®", "¯",
     "°", "±", "²", "³", "´", "µ", "¶", "·", "¸", "¹", "º", "»", "¼", "½", "¾", "¿",
     "À", "Á", "Â", "Ã", "Ä", "Å", "Æ", "Ç", "È", "É", "Ê", "Ë", "Ì", "Í", "Î", "Ï",
     "Ð", "Ñ", "Ò", "Ó", "Ô", "Õ", "Ö", "×", "Ø", "Ù", "Ú", "Û", "Ü", "Ý", "Þ", "ß",
     "à", "á", "â", "ã", "ä", "å", "æ", "ç", "è", "é", "ê", "ë", "ì", "í", "î", "ï",
     "ð", "ñ", "ò", "ó", "ô", "õ", "ö", "÷", "ø", "ù", "ú", "û", "ü", "ý", "þ", "ÿ"}

Utf8Lead == "<utf8-lead>"

Utf8Cont == "<utf8-continuation>"

\* PyUnicode_AsUTF8AndSize: the bytes of s, one element per byte.
RECURSIVE Utf8(_)
Utf8(s) ==
    IF s = <<>> THEN <<>>
    ELSE (IF Head(s) \in NonAscii THEN <<Utf8Lead, Utf8Cont>> ELSE <<Head(s)>>)
         \o Utf8(Tail(s))

\* The character at index i of s; past the end, the terminator of the C
\* string that datetime.fromisoformat works on.
Nul == "<nul>"

At(s, i) == IF i \in 1..Len(s) THEN s[i] ELSE Nul

\* parse_digits: n decimal digits starting at index i, and their value.
DigitsAt(s, i, n) == \A k \in i..(i + n - 1) : At(s, k) \in Digits

NumAt(s, i, n) == Num(SubSeq(s, i, i + n - 1))

\* Proleptic Gregorian ordinals (1 is 0001-01-01).
DaysBeforeYear(y) ==
    (y - 1) * 365 + ((y - 1) \div 4) - ((y - 1) \div 100) + ((y - 1) \div 400)

RECURSIVE DaysBeforeMonth(_, _)
DaysBeforeMonth(y, m) ==
    IF m = 1 THEN 0 ELSE DaysBeforeMonth(y, m - 1) + DaysInMonth(y, m - 1)

YmdToOrd(y, m, d) == DaysBeforeYear(y) + DaysBeforeMonth(y, m) + d

\* ord_to_ymd: the date of day doy of year yy, and of ordinal n, which lies
\* within a year of y.
YmdOfDay(yy, doy) ==
    LET mm == CHOOSE m \in 1..12 :
                  /\ DaysBeforeMonth(yy, m) < doy
                  /\ doy <= DaysBeforeMonth(yy, m) + DaysInMonth(yy, m)
    IN  <<yy, mm, doy - DaysBeforeMonth(yy, mm)>>

YmdInYear(n, yy) == YmdOfDay(yy, n - DaysBeforeYear(yy))

OrdToYmd(n, y) ==
    YmdInYear(n, CHOOSE c \in {y - 1, y, y + 1} :
                     DaysBeforeYear(c) < n /\ n <= DaysBeforeYear(c + 1))

\* iso_to_ymd, given the ordinal of January 1st of year y: the weekday of
\* that day (0 is Monday) decides whether the year has a week 53 and where
\* its week 1 starts (iso_week1_monday).  NoDate when the week or the day is
\* out of range.
IsoWeekDate(y, w, d, first) ==
    LET wd == (first + 6) % 7
        week1 == IF wd > 3 THEN first - wd + 7 ELSE first - wd
    IN  IF \/ y < 1
           \/ w <= 0 \/ w > 53
           \/ (w = 53 /\ ~(wd = 3 \/ (wd = 2 /\ IsLeap(y))))
           \/ d <= 0 \/ d >= 8
        THEN NoDate
        ELSE OrdToYmd(week1 + (w - 1) * 7 + d - 1, y)

IsoToYmd(y, w, d) == IsoWeekDate(y, w, d, YmdToOrd(y, 1, 1))

\* _find_isoformat_datetime_separator: how many characters the date part
\* takes (-1: none can be found), for a string of at least 7 characters.
IsoSeparator(s) ==
    IF Len(s) = 7 THEN 7
    ELSE IF s[5] = "-"
    THEN IF s[6] = "W"
         THEN IF Len(s) > 8 /\ s[9] = "-"
              THEN (IF Len(s) = 9 THEN -1
                    ELSE IF Len(s) > 10 /\ s[11] \in Digits THEN 8
                    ELSE 10)
              ELSE 8
         ELSE 10
    ELSE IF s[5] = "W"
    THEN LET stop == {k \in 7..(Len(s) - 1) : s[k + 1] \notin Digits}
             idx == IF stop = {} THEN Len(s)
                    ELSE CHOOSE k \in stop : \A j \in stop : k <= j
         IN  IF idx < 9 THEN idx ELSE IF idx % 2 = 0 THEN 7 ELSE 8
    ELSE 8

\* parse_isoformat_date after the year y: sep says whether a '-' followed
\* the year, p is the index after it.  A week (Www, then a day digit if the
\* date part goes on, 1 otherwise) or a month and a day of two digits each;
\* the triple of a month and a day is not yet range-checked.  NoDate stands
\* for a parse error.
IsoDateFrom(s, loc, y, sep, p) ==
    IF At(s, p) = "W"
    THEN IF ~DigitsAt(s, p + 1, 2) THEN NoDate
         ELSE IF p + 2 < loc /\ sep /\ At(s, p + 3) # "-" THEN NoDate
         ELSE IsoToYmd(y, NumAt(s, p + 1, 2),
                       IF p + 2 >= loc THEN 1
                       ELSE IF At(s, IF sep THEN p + 4 ELSE p + 3) \in Digits
                       THEN DigitVal(At(s, IF sep THEN p + 4 ELSE p + 3))
                       ELSE 0)
    ELSE IF ~DigitsAt(s, p, 2) THEN NoDate
    ELSE IF sep /\ At(s, p + 2) # "-" THEN NoDate
    ELSE IF DigitsAt(s, IF sep THEN p + 3 ELSE p + 2, 2)
    THEN <<y, NumAt(s, p, 2), NumAt(s, IF sep THEN p + 3 ELSE p + 2, 2)>>
    ELSE NoDate

\* parse_isoformat_date: YYYY-MM-DD, YYYYMMDD, YYYY-Www[-D] or YYYYWww[D].
IsoDate(s, loc) ==
    IF ~DigitsAt(s, 1, 4) THEN NoDate
    ELSE IsoDateFrom(s, loc, NumAt(s, 1, 4), At(s, 5) = "-", IF At(s, 5) = "-" THEN 6 ELSE 5)

\* The result of parse_hh_mm_ss_ff: rv is 0 when the string ended with the
\* component, 1 when something follows it, negative for a parse error.
HmsError == [rv |-> -3, vals |-> <<>>]

RECURSIVE SkipDigits(_, _)
SkipDigits(s, p) == IF At(s, p) \in Digits THEN SkipDigits(s, p + 1) ELSE p

\* The fractional seconds: up to six digits are read, further digits skipped.
Fraction(s, p, end, vals) ==
    IF ~DigitsAt(s, p, IF end - p >= 6 THEN 6 ELSE end - p) THEN HmsError
    ELSE [rv |-> IF At(s, SkipDigits(s, p + (IF end - p >= 6 THEN 6 ELSE end - p))) = Nul
                 THEN 0 ELSE 1,
          vals |-> vals]

\* parse_hh_mm_ss_ff from index p up to (not including) index end: component
\* i of HH[:MM[:SS[.ffffff]]], with or without ':' as the first break has it.
\* Hms reads the two digits; HmsBreak looks at the character c after them
\* (sep: the first break was a ':'); HmsNext goes on at index q with the
\* fraction (after a '.' or ',', or after the third component) or with the
\* next component.
RECURSIVE Hms(_, _, _, _, _, _)
RECURSIVE HmsBreak(_, _, _, _, _, _)
RECURSIVE HmsNext(_, _, _, _, _, _, _)
Hms(s, p, end, i, sep, vals) ==
    IF ~DigitsAt(s, p, 2) THEN HmsError
    ELSE HmsBreak(s, p, end, i, IF i = 0 THEN At(s, p + 2) = ":" ELSE sep,
                  Append(vals, NumAt(s, p, 2)))

HmsBreak(s, p, end, i, sep, vals) ==
    LET c == At(s, p + 2)
    IN  IF p + 3 >= end THEN [rv |-> IF c = Nul THEN 0 ELSE 1, vals |-> vals]
        ELSE IF sep /\ c \notin {":", ".", ","} THEN [rv |-> -4, vals |-> vals]
        ELSE HmsNext(s, IF c \in {".", ","} \/ (sep /\ c = ":") THEN p + 3 ELSE p + 2,
                     end, i, sep, vals,
                     IF sep /\ c = ":" THEN i = 2 ELSE (c \in {".", ","} \/ i = 2))

HmsNext(s, q, end, i, sep, vals, fraction) ==
    IF fraction THEN Fraction(s, q, end, vals) ELSE Hms(s, q, end, i + 1, sep, vals)

Comp(vals, i) == IF i <= Len(vals) THEN vals[i] ELSE 0

\* Where the UTC offset starts: the first 'Z', '+' or '-' from index start on.
TzPos(s, start) ==
    LET marks == {k \in start..Len(s) : s[k] \in {"Z", "+", "-"}}
    IN  IF marks = {} THEN Len(s) + 1 ELSE CHOOSE k \in marks : \A j \in marks : k <= j

\* The offset o parsed after the sign: it must end the string and be less
\* than a day.
OffsetValid(o) ==
    /\ o.rv = 0
    /\ Comp(o.vals, 1) * 3600 + Comp(o.vals, 2) * 60 + Comp(o.vals, 3) < 86400

\* parse_isoformat_time and the range checks of the datetime and timezone
\* constructors: t is the time parsed up to the offset at index tz.
TimeAndOffset(s, tz, t) ==
    /\ t.rv >= 0
    /\ Comp(t.vals, 1) < 24 /\ Comp(t.vals, 2) < 60 /\ Comp(t.vals, 3) < 60
    /\ IF tz = Len(s) + 1 THEN t.rv = 0
       ELSE IF s[tz] = "Z" THEN tz = Len(s)
       ELSE OffsetValid(Hms(s, tz + 1, Len(s) + 1, 0, FALSE, <<>>))

IsoTimeAt(s, start, tz) == TimeAndOffset(s, tz, Hms(s, start, tz, 0, FALSE, <<>>))

IsoTimeValid(s, start) == start <= Len(s) /\ IsoTimeAt(s, start, TzPos(s, start))

\* The date d read from the first loc bytes, range-checked by the
\* constructor; what follows must be one separator character (one byte, or
\* two for a character that is not ASCII) and a time.
IsoChecked(s, loc, d) ==
    IF d = NoDate THEN NoDate
    ELSE IF ~ValidDate(d[1], d[2], d[3]) THEN NoDate
    ELSE IF Len(s) > loc
            /\ ~IsoTimeValid(s, IF s[loc + 1] = Utf8Lead THEN loc + 3 ELSE loc + 2)
    THEN NoDate
    ELSE d

IsoFrom(s, loc) == IF loc = -1 THEN NoDate ELSE IsoChecked(s, loc, IsoDate(s, loc))

\* datetime.fromisoformat(s).date() (CPython 3.11), which parses the UTF-8
\* bytes of s: the date part, then optionally one separator character and a
\* time with an optional offset.
\* NoDate stands for the ValueError the caller catches.
IsoParse(b) == IF Len(b) < 7 THEN NoDate ELSE IsoFrom(b, IsoSeparator(b))

FromIsoFormat(s) == IsoParse(Utf8(s))

\* A value that is no string (a JSON number, say): truthy, and len() of it
\* raises inside the try block.
NotAString == <<"<number>">>

\* The branch the shape of the string selects.
DateBranch(date_str) ==
    IF Len(date_str) = 10 /\ Contains(date_str, "-") THEN "ymd"
    ELSE IF Len(date_str) = 10 /\ Contains(date_str, "/") THEN "mdy"
    ELSE "iso"

\* What the selected branch returns; NoDate stands for the exception it raises.
BranchValue(date_str) ==
    CASE DateBranch(date_str) = "ymd" -> StrptimeYMD(date_str)
      [] DateBranch(date_str) = "mdy" -> StrptimeMDY(date_str)
      [] DateBranch(date_str) = "iso" -> FromIsoFormat(ReplaceZ(date_str))

\* A plausible slip: a branch that fails hands over to the next format.
DateOutcomeFallThrough(date_str) ==
    IF date_str = AbsentStr \/ date_str = <<>>
    THEN [branch |-> "none", raised |-> FALSE, value |-> NoDate]
    ELSE IF date_str = NotAString
    THEN [branch |-> "none", raised |-> FALSE, value |-> NoDate]
    ELSE IF BranchValue(date_str) # NoDate
    THEN [branch |-> DateBranch(date_str), raised |-> FALSE, value |-> BranchValue(date_str)]
    ELSE IF DateBranch(date_str) = "ymd" /\ StrptimeMDY(date_str) # NoDate
    THEN [branch |-> "mdy", raised |-> FALSE, value |-> StrptimeMDY(date_str)]
    ELSE [branch |-> "iso", raised |-> FALSE, value |-> FromIsoFormat(ReplaceZ(date_str))]

\* parse_date with the branch it took: None for a missing or empty string;
\* everything after that test runs inside try ... except Exception, which
\* turns any error of the selected branch into None.
DateOutcome(date_str) ==
    IF date_str = AbsentStr \/ date_str = <<>>
    THEN [branch |-> "none", raised |-> FALSE, value |-> NoDate]
    ELSE IF date_str = NotAString
    THEN [branch |-> "none", raised |-> FALSE, value |-> NoDate]
    ELSE [branch |-> DateBranch(date_str), raised |-> FALSE, value |-> BranchValue(date_str)]

parse_date(date_str) == DateOutcome(date_str).value

\* ------------------------------------------------------- source documents
\* dict.get("Patient_Name") of a header without that key.
AbsentName == "<absent>"

\* The sections of a document and the record category each extractor writes.
Sections == {"Lab_Results", "Medications", "Vitals", "Conditions", "Procedures",
             "Allergies", "Immunizations"}

CategoryOf(section) ==
    CASE section = "Lab_Results" -> "LAB"
      [] section = "Medications" -> "MEDICATION"
      [] section = "Vitals" -> "VITAL"
      [] section = "Conditions" -> "CONDITION"
      [] section = "Procedures" -> "PROCEDURE"
      [] section = "Allergies" -> "ALLERGY"
      [] section = "Immunizations" -> "IMMUNIZATION"

\* Where reading and processing one file raises: nowhere, in open/json.load,
\* or inside one of the four extractors (a malformed entry).
Faults == {"none", "load", "lab", "med", "vital", "clinical"}

\* A source file is [header, fault, data]: header is [has_header, Patient_Name,
\* Date_Of_Birth]; data is the sequence of the document's entries, each
\* [section, date, value] (a lab entry is a session holding one test; value is
\* the entry's Test_Value or Vital_Value).
NoHeader == [has_header |-> FALSE, Patient_Name |-> AbsentName, Date_Of_Birth |-> AbsentStr]

\* extract_patient_info: {} (here: falsy identity and date) when the file
\* cannot be parsed or has no header_fields.
EmptyInfo == [patient_identity |-> "", date_of_birth |-> NoDate]

\* header.get("Patient_Name", "Unknown Patient")
DefaultIdentity(name) == IF name = AbsentName THEN "Unknown Patient" ELSE name

extract_patient_info(file) ==
    IF file.fault = "load" \/ ~file.header.has_header THEN EmptyInfo
    ELSE [patient_identity |-> DefaultIdentity(file.header.Patient_Name),
          date_of_birth |-> parse_date(file.header.Date_Of_Birth)]

\* patient_info.get("patient_identity") and patient_info.get("date_of_birth")
Qualifies(info) == info.patient_identity # "" /\ info.date_of_birth # NoDate

\* The scan loop: the info of the first file that qualifies, else that of the
\* last file read ({} for an empty list).
RECURSIVE ScanPatientInfo(_)
ScanPatientInfo(files) ==
    IF files = <<>> THEN EmptyInfo
    ELSE IF Qualifies(extract_patient_info(Head(files))) \/ Len(files) = 1
         THEN extract_patient_info(Head(files))
         ELSE ScanPatientInfo(Tail(files))

\* ----------------------------------------------------------------- values
\* A value column of a record: None, a float (num / 10^scale, without
\* trailing zeros), or the raw value taken from the document as it is.
NoValue == [kind |-> "none", num |-> 0, scale |-> 0, raw |-> <<>>]

FloatValue(num, scale) == [kind |-> "float", num |-> num, scale |-> scale, raw |-> <<>>]

\* dict.get(key): None for a missing key, else the value itself.
RawValue(value) ==
    IF value = AbsentStr THEN NoValue
    ELSE [kind |-> "raw", num |-> 0, scale |-> 0, raw |-> value]

\* The characters str.strip() removes (str.isspace()), of those with a code
\* point below 256.
WhiteSpace ==
    {" ", "\t", "\n", "\r", "\f", "", "", "", "", "", "", " "}

\* str.strip()
RECURSIVE Strip(_)
Strip(s) ==
    IF s = <<>> THEN s
    ELSE IF Head(s) \in WhiteSpace THEN Strip(Tail(s))
    ELSE IF s[Len(s)] \in WhiteSpace THEN Strip(SubSeq(s, 1, Len(s) - 1))
    ELSE s

\* str.replace(c, '') for every c of chars
Without(s, chars) == SelectSeq(s, LAMBDA c : c \notin chars)

\* str.isdigit(): false for the empty string; the superscript digits count
\* as digits, float() does not read them.
IsDigit(s) == s # <<>> /\ \A i \in 1..Len(s) : s[i] \in Digits \cup {"²", "³", "¹"}

\* value_str and value_str.replace('.', '').replace('-', '').isdigit()
LooksNumeric(value_str) == value_str # <<>> /\ IsDigit(Without(value_str, {".", "-"}))

\* float(s) for a string of digits, '.' and '-': whether it parses (one
\* optional leading '-', at most one '.', at least one digit) ...
FloatParses(s) ==
    LET body == IF s # <<>> /\ Head(s) = "-" THEN Tail(s) ELSE s
    IN  /\ \A i \in 1..Len(body) : body[i] \in Digits \cup {"."}
        /\ Cardinality({i \in 1..Len(body) : body[i] = "."}) <= 1
        /\ \E i \in 1..Len(body) : body[i] \in Digits

RECURSIVE Reduce(_, _)
Reduce(num, scale) ==
    IF scale > 0 /\ num % 10 = 0 THEN Reduce(num \div 10, scale - 1) ELSE FloatValue(num, scale)

\* ... and its value.
Float(s) ==
    LET neg == Head(s) = "-"
        body == IF neg THEN Tail(s) ELSE s
        dot == {i \in 1..Len(body) : body[i] = "."}
        scale == IF dot = {} THEN 0 ELSE Len(body) - (CHOOSE i \in dot : TRUE)
        mag == Num(Without(body, {"."}))
    IN  Reduce(IF neg THEN 0 - mag ELSE mag, scale)

\* str(test.get("Test_Value", "")).strip()
ValueStr(value) == IF value = AbsentStr THEN <<>> ELSE Strip(value)

\* The try block of process_lab_results: value_numeric is set when the value
\* looks numeric and float() accepts it; any error is swallowed.
LabNumeric(value) ==
    IF LooksNumeric(ValueStr(value)) /\ FloatParses(ValueStr(value))
    THEN Float(ValueStr(value)) ELSE NoValue

\* "value_text": written by the lab extractor only.
ValueText(section, value) == IF section = "Lab_Results" THEN RawValue(value) ELSE NoValue

\* "value_numeric": parsed for a lab test, copied as it is for a vital.
ValueNumeric(section, value) ==
    IF section = "Lab_Results" THEN LabNumeric(value)
    ELSE IF section = "Vitals" THEN RawValue(value)
    ELSE NoValue

\* ------------------------------------------------------------- extractors
\* One canonical record per entry of the extractor's section, in document
\* order; record ids are fresh (uuid4), numbered from base + 1.
SectionEntries(data, secs) == SelectSeq(data, LAMBDA e : e.section \in secs)

MakeRecords(entries, patient_id, import_id, source_file, base) ==
    [k \in 1..Len(entries) |->
        [record_id |-> base + k,
         patient_id |-> patient_id,
         import_id |-> import_id,
         record_category |-> CategoryOf(entries[k].section),
         record_date |-> parse_date(entries[k].date),
         item_description |-> entries[k].name,
         value_text |-> ValueText(entries[k].section, entries[k].value),
         value_numeric |-> ValueNumeric(entries[k].section, entries[k].value),
         source_file |-> source_file]]

process_lab_results(data, patient_id, import_id, source_file, base) ==
    MakeRecords(SectionEntries(data, {"Lab_Results"}), patient_id, import_id, source_file, base)

process_medications(data, patient_id, import_id, source_file, base) ==
    MakeRecords(SectionEntries(data, {"Medications"}), patient_id, import_id, source_file, base)

process_vitals(data, patient_id, import_id, source_file, base) ==
    MakeRecords(SectionEntries(data, {"Vitals"}), patient_id, import_id, source_file, base)

\* A plausible slip: the two id arguments change places.
process_clinical_dataSwapped(data, patient_id, import_id, source_file, base) ==
    MakeRecords(SectionEntries(data, {"Conditions"}) \o SectionEntries(data, {"Procedures"})
                \o SectionEntries(data, {"Allergies"}) \o SectionEntries(data, {"Immunizations"}),
                import_id, patient_id, source_file, base)

\* Conditions, then procedures, then allergies, then immunizations.
process_clinical_data(data, patient_id, import_id, source_file, base) ==
    MakeRecords(SectionEntries(data, {"Conditions"}) \o SectionEntries(data, {"Procedures"})
                \o SectionEntries(data, {"Allergies"}) \o SectionEntries(data, {"Immunizations"}),
                patient_id, import_id, source_file, base)

\* A plausible slip: each extractor's records are appended as soon as they are
\* produced, so a file that fails in a later extractor still contributes.
FileRecordsPartial(file, patient_id, import_id, source_file, base) ==
    LET lab == process_lab_results(file.data, patient_id, import_id, source_file, base)
        med == process_medications(file.data, patient_id, import_id, source_file, base + Len(lab))
        vit == process_vitals(file.data, patient_id, import_id, source_file,
                              base + Len(lab) + Len(med))
        cli == process_clinical_data(file.data, patient_id, import_id, source_file,
                                     base + Len(lab) + Len(med) + Len(vit))
    IN  CASE file.fault = "none" -> lab \o med \o vit \o cli
          [] file.fault = "clinical" -> lab \o med \o vit
          [] file.fault = "vital" -> lab \o med
          [] file.fault = "med" -> lab
          [] OTHER -> <<>>

\* The body of the per-file try block: the four extractors run before any
\* all_records.extend, so a file that raises anywhere contributes nothing.
FileRecords(file, patient_id, import_id, source_file, base) ==
    LET lab == process_lab_results(file.data, patient_id, import_id, source_file, base)
        med == process_medications(file.data, patient_id, import_id, source_file, base + Len(lab))
        vit == process_vitals(file.data, patient_id, import_id, source_file,
                              base + Len(lab) + Len(med))
        cli == process_clinical_data(file.data, patient_id, import_id, source_file,
                                     base + Len(lab) + Len(med) + Len(vit))
    IN  IF file.fault = "none" THEN lab \o med \o vit \o cli ELSE <<>>

\* -------------------------------------------------------------- statistics
Labels == {"Lab Results", "Medications", "Vitals", "Clinical Data"}

Incr(acc, label) ==
    IF label \in DOMAIN acc THEN [acc EXCEPT ![label] = @ + 1] ELSE acc @@ (label :> 1)

\* A plausible slip: the chain names one clinical category and has no else.
BumpNoElse(acc, category) ==
    IF category = "LAB" THEN Incr(acc, "Lab Results")
    ELSE IF category = "MEDICATION" THEN Incr(acc, "Medications")
    ELSE IF category = "VITAL" THEN Incr(acc, "Vitals")
    ELSE IF category = "CONDITION" THEN Incr(acc, "Clinical Data")
    ELSE acc

\* One pass of the counting loop over the defaultdict records_by_category.
Bump(acc, category) ==
    IF category = "LAB" THEN Incr(acc, "Lab Results")
    ELSE IF category = "MEDICATION" THEN Incr(acc, "Medications")
    ELSE IF category = "VITAL" THEN Incr(acc, "Vitals")
    ELSE Incr(acc, "Clinical Data")

RECURSIVE CountByCategory(_, _)
CountByCategory(records, acc) ==
    IF records = <<>> THEN acc
    ELSE CountByCategory(Tail(records), Bump(acc, Head(records).record_category))

EmptyDict == [l \in {} |-> 0]

\* A plausible slip: the dated records are counted among the lab records, as
\* the most-recent-lab insight does.
RecordsWithDatesLabOnly(records) ==
    Cardinality({i \in 1..Len(records) : records[i].record_category = "LAB"
                                         /\ records[i].record_date # NoDate})

\* len([r for r in records if r.get("record_date")]): None is falsy, a date
\* is not.
RecordsWithDates(records) ==
    Cardinality({i \in 1..Len(records) : records[i].record_date # NoDate})

\* gcd(a, b)
RECURSIVE Gcd(_, _)
Gcd(a, b) == IF b = 0 THEN a ELSE Gcd(b, a % b)

\* count / total * 100 lies halfway between two tenths only when total, with
\* the common factors of count taken out, is 16, 80, 400 or 2000.  round()
\* then decides on the double the division and the product gave: it is the
\* tie itself for the quarters (16: the even tenth is taken) and mostly a
\* neighbour of it otherwise.  For each of the four, the reduced counts whose
\* double is rounded to the upper tenth.
RoundsUp16 ==
    {3, 7, 11, 15}

RoundsUp80 ==
    {3, 7, 11, 19, 27, 31, 39, 43, 47, 49, 59, 63, 67, 71, 79}

RoundsUp400 ==
    {3, 7, 11, 19, 23, 27, 31, 39, 43, 47, 51, 59, 63, 67, 71, 79, 83, 87, 91, 99, 103, 107,
     109, 111, 119, 123, 127, 131, 139, 143, 147, 151, 159, 163, 167, 171, 179, 183, 187,
     191, 199, 211, 219, 223, 227, 231, 239, 243, 247, 249, 259, 263, 267, 271, 279, 283,
     287, 291, 299, 303, 307, 311, 319, 323, 327, 331, 339, 343, 347, 351, 359, 363, 367,
     371, 379, 383, 387, 391, 399}

RoundsUp2000 ==
    {1, 7, 13, 17, 21, 27, 29, 31, 33, 41, 47, 49, 57, 67, 69, 77, 79, 83, 89, 93, 97, 99,
     101, 109, 113, 117, 123, 129, 131, 133, 137, 139, 159, 161, 163, 169, 171, 183, 191,
     193, 199, 201, 203, 213, 221, 223, 229, 231, 233, 243, 251, 253, 259, 261, 263, 267,
     269, 271, 273, 277, 279, 281, 303, 311, 313, 319, 321, 323, 327, 331, 333, 337, 339,
     341, 343, 361, 367, 371, 377, 381, 387, 391, 393, 397, 399, 401, 403, 421, 431, 437,
     441, 447, 451, 453, 457, 461, 463, 467, 481, 491, 497, 501, 507, 511, 513, 517, 521,
     523, 527, 529, 531, 533, 537, 539, 541, 543, 547, 549, 551, 553, 557, 559, 561, 611,
     617, 621, 627, 631, 637, 647, 649, 651, 657, 659, 661, 667, 669, 671, 673, 677, 679,
     681, 683, 687, 707, 717, 727, 737, 739, 747, 749, 757, 759, 767, 769, 771, 777, 779,
     781, 787, 789, 791, 797, 799, 801, 803, 807, 809, 811, 837, 847, 857, 859, 867, 869,
     877, 879, 887, 889, 897, 899, 901, 907, 909, 911, 917, 919, 921, 923, 927, 929, 931,
     933, 937, 957, 967, 977, 987, 989, 997, 999, 1087, 1097, 1107, 1109, 1117, 1119, 1127,
     1129, 1137, 1139, 1147, 1149, 1151, 1157, 1159, 1161, 1167, 1169, 1171, 1173, 1177,
     1179, 1181, 1183, 1187, 1189, 1191, 1193, 1197, 1199, 1201, 1203, 1207, 1209, 1211,
     1213, 1217, 1219, 1221, 1223, 1227, 1229, 1231, 1233, 1237, 1239, 1241, 1243, 1247,
     1249, 1289, 1299, 1309, 1319, 1329, 1339, 1343, 1349, 1353, 1359, 1363, 1369, 1373,
     1379, 1383, 1389, 1393, 1399, 1403, 1409, 1413, 1417, 1419, 1423, 1427, 1429, 1433,
     1437, 1439, 1443, 1447, 1449, 1453, 1457, 1459, 1463, 1467, 1469, 1471, 1473, 1477,
     1479, 1481, 1483, 1487, 1489, 1491, 1493, 1497, 1499, 1539, 1549, 1559, 1569, 1579,
     1589, 1593, 1599, 1603, 1609, 1613, 1619, 1623, 1629, 1633, 1639, 1643, 1649, 1653,
     1659, 1663, 1667, 1669, 1673, 1677, 1679, 1683, 1687, 1689, 1693, 1697, 1699, 1703,
     1707, 1709, 1713, 1717, 1719, 1721, 1723, 1727, 1729, 1731, 1733, 1737, 1739, 1741,
     1743, 1747, 1749, 1789, 1799, 1809, 1819, 1829, 1839, 1843, 1849, 1853, 1859, 1863,
     1869, 1873, 1879, 1883, 1889, 1893, 1899, 1903, 1909, 1913, 1917, 1919, 1923, 1927,
     1929, 1933, 1937, 1939, 1943, 1947, 1949, 1953, 1957, 1959, 1963, 1967, 1969, 1971,
     1973, 1977, 1979, 1981, 1983, 1987, 1989, 1991, 1993, 1997, 1999}

RoundsUp(c, d) ==
    CASE d = 16 -> c \in RoundsUp16
      [] d = 80 -> c \in RoundsUp80
      [] d = 400 -> c \in RoundsUp400
      [] OTHER -> c \in RoundsUp2000

\* The tenths of a tie: q or q + 1; g is gcd(count, total).
PercentageOfTie(count, total, g, q) ==
    IF RoundsUp(count \div g, total \div g) THEN q + 1 ELSE q

\* round(count / total * 100 if total else 0, 1), in tenths of a percent.
Percentage(count, total) ==
    IF total = 0 THEN 0
    ELSE IF 2 * ((1000 * count) % total) = total
    THEN PercentageOfTie(count, total, Gcd(count, total), (1000 * count) \div total)
    ELSE (2000 * count + total) \div (2 * total)

\* str(n) of a natural number.
RECURSIVE Str(_)
Str(n) ==
    IF n < 10 THEN Pad(n, 1) ELSE Str(n \div 10) \o Pad(n % 10, 1)

\* The dict timeline_coverage as the sequence of its items in insertion
\* order: the year of every dated record, counted.
RECURSIVE TimelineCoverage(_, _)
TimelineCoverage(records, acc) ==
    IF records = <<>> THEN acc
    ELSE IF Head(records).record_date = NoDate THEN TimelineCoverage(Tail(records), acc)
    ELSE IF \E i \in 1..Len(acc) : acc[i].year = Head(records).record_date[1]
    THEN TimelineCoverage(Tail(records),
                          [i \in 1..Len(acc) |->
                              IF acc[i].year = Head(records).record_date[1]
                              THEN [acc[i] EXCEPT !.count = @ + 1] ELSE acc[i]])
    ELSE TimelineCoverage(Tail(records),
                          Append(acc, [year |-> Head(records).record_date[1], count |-> 1]))

\* The index of the first item of items, outside skip, with the highest
\* count: what a stable descending sort puts first.
Best(items, skip) ==
    CHOOSE i \in DOMAIN items \ skip :
        \A j \in DOMAIN items \ skip :
            items[j].count < items[i].count \/ (items[j].count = items[i].count /\ i <= j)

\* A plausible slip: among equal counts the later year key comes first.
TopYearsLastWins(items) ==
    LET best(skip) == CHOOSE i \in DOMAIN items \ skip :
                          \A j \in DOMAIN items \ skip :
                              items[j].count < items[i].count
                              \/ (items[j].count = items[i].count /\ j <= i)
    IN  IF Len(items) = 0 THEN <<>>
        ELSE IF Len(items) = 1 THEN <<items[1].year>>
        ELSE <<items[best({})].year, items[best({best({})})].year>>

\* sorted(timeline_coverage.items(), key=count, reverse=True)[:2]: the years
\* of the two highest counts; the sort is stable, so equal counts keep their
\* insertion order.
TopYears(items) ==
    IF Len(items) = 0 THEN <<>>
    ELSE IF Len(items) = 1 THEN <<items[1].year>>
    ELSE <<items[Best(items, {})].year, items[Best(items, {Best(items, {})})].year>>

\* a <= b for dates
DateLeq(a, b) ==
    \/ a[1] < b[1]
    \/ (a[1] = b[1] /\ a[2] < b[2])
    \/ (a[1] = b[1] /\ a[2] = b[2] /\ a[3] <= b[3])

Truthy(text) == text # AbsentStr /\ text # <<>>

\* str(d) of a date: its ISO form.
DateStr(d) == Pad(d[1], 4) \o <<"-">> \o Pad(d[2], 2) \o <<"-">> \o Pad(d[3], 2)

\* "Most recent lab test: <max date>", if a lab record has a date.
LabInsight(dates) ==
    IF dates = {} THEN <<>>
    ELSE <<<<"M", "o", "s", "t", " ", "r", "e", "c", "e", "n", "t", " ", "l", "a", "b", " ", "t", "e", "s", "t", ":", " ">>
           \o DateStr(CHOOSE d \in dates : \A e \in dates : DateLeq(e, d))>>

\* "Years with most complete data: y1, y2", if a record has a date.
YearsInsight(years) ==
    IF years = <<>> THEN <<>>
    ELSE <<<<"Y", "e", "a", "r", "s", " ", "w", "i", "t", "h", " ", "m", "o", "s", "t", " ", "c", "o", "m", "p", "l", "e", "t", "e", " ", "d", "a", "t", "a", ":", " ">>
           \o Str(years[1])
           \o (IF Len(years) > 1 THEN <<",", " ">> \o Str(years[2]) ELSE <<>>)>>

\* key_insights of calculate_import_statistics, in the order it appends them.
KeyInsights(records) ==
    LabInsight({records[i].record_date : i \in {j \in 1..Len(records) :
                   records[j].record_category = "LAB" /\ records[j].record_date # NoDate}})
    \o <<<<"R", "e", "c", "e", "n", "t", " ", "m", "e", "d", "i", "c", "a", "t", "i", "o", "n", "s", ":", " ">>
         \o Str(Cardinality({i \in 1..Len(records) :
                   /\ records[i].record_category = "MEDICATION"
                   /\ records[i].record_date # NoDate
                   /\ DateLeq(<<2024, 1, 1>>, records[i].record_date)}))>>
    \o YearsInsight(TopYears(TimelineCoverage(records, <<>>)))
    \o <<<<"T", "o", "t", "a", "l", " ", "u", "n", "i", "q", "u", "e", " ", "l", "a", "b", " ", "t", "e", "s", "t", "s", " ", "t", "r", "a", "c", "k", "e", "d", ":", " ">>
         \o Str(Cardinality({records[i].item_description : i \in {j \in 1..Len(records) :
                   /\ records[j].record_category = "LAB"
                   /\ Truthy(records[j].item_description)}}))>>

\* calculate_import_statistics: the parts of the result the store and the
\* caller receive.
calculate_import_statistics(records) ==
    [total_records |-> Len(records),
     records_by_category |-> CountByCategory(records, EmptyDict),
     data_quality |->
        [records_with_dates |->
            [count |-> RecordsWithDates(records),
             total |-> Len(records),
             percentage |-> Percentage(RecordsWithDates(records), Len(records))]],
     key_insights |-> KeyInsights(records)]

RECURSIVE SumValues(_)
SumValues(d) ==
    IF DOMAIN d = {} THEN 0
    ELSE LET k == CHOOSE x \in DOMAIN d : TRUE
         IN  d[k] + SumValues([x \in DOMAIN d \ {k} |-> d[x]])

\* ------------------------------------------------------------------ state
VARIABLES
    store,      \* the tables as every session sees them (committed state)
    conn,       \* the import's connection: [state, autocommit, view]
    pc,         \* position of the call in progress ("idle": none)
    dir,        \* the directory the import in progress was given
    call,       \* the locals of the call in progress
    result,     \* what the last finished call returned to its caller
    events,     \* the store and service operations the last call completed
    before,     \* the store as it was when the last call started
    calls,      \* calls started so far
    nextId,     \* uuid4: ids handed out so far (every id is fresh)
    runs,       \* the imports that returned success, oldest first
    pureIn,     \* argument of the pure function under check
    pureOut     \* its value

vars == <<store, conn, pc, dir, call, result, events, before, calls, nextId, runs,
          pureIn, pureOut>>

pureVars == <<pureIn, pureOut>>

EmptyTables == [PATIENTS |-> {}, IMPORTS |-> {}, HEALTH_RECORDS |-> {}]

NoConn == [state |-> "none", autocommit |-> FALSE, view |-> EmptyTables]

NoDir == [exists |-> FALSE, files |-> <<>>]

NoPending == [exc |-> FALSE, value |-> <<>>]

NoCall == [nfiles |-> 0, patient_info |-> EmptyInfo, patient_id |-> 0, import_id |-> 0,
           all_records |-> <<>>, idx |-> 0, pending |-> NoPending,
           query |-> <<>>, response |-> <<>>, sql |-> "", interpretation |-> <<>>]

\* ---------------------------------------------------------------- results
\* A returned dict: op names the tool, flag is success / query_successful,
\* error is "" when the key is absent, error_details says whether the trace
\* string is present, body holds the other keys.  raised marks an exception
\* that left the tool instead of a returned dict.
NoResult == [op |-> "none", raised |-> FALSE, flag |-> FALSE, error |-> "",
             error_details |-> FALSE, body |-> <<>>]

DirNotFoundMsg == "Directory not found"
NoSourceFilesMsg == "No health data JSON files found in directory"
MissingPatientMsg == "Could not extract patient information from header_fields in JSON files"
NoRecordsMsg == "No valid health records found in the provided files"
ImportFailedMsg == "Import failed"
ExtractionMsg == "Could not extract SQL from Cortex Analyst response"
CortexFailedMsg == "Cortex Analyst call failed"
SqlFailedMsg == "SQL execution failed"
\* str(e) of an exception the driver raised in a finally clause.
DriverMsg == "<message of the driver's exception>"

ImportError(msg) == [op |-> "import", raised |-> FALSE, flag |-> FALSE, error |-> msg,
                     error_details |-> FALSE, body |-> <<>>]

ImportSuccess(info, patient_id, import_id, records, statistics) ==
    [op |-> "import", raised |-> FALSE, flag |-> TRUE, error |-> "", error_details |-> FALSE,
     body |-> [patient_name |-> info.patient_identity,
               patient_dob |-> info.date_of_birth,
               patient_id |-> patient_id,
               import_id |-> import_id,
               total_records |-> Len(records),
               statistics |-> statistics]]

\* A plausible slip: no handler around the body, so the exception leaves the tool.
ImportBoundaryOpen(pending) ==
    IF pending.exc
    THEN [op |-> "import", raised |-> TRUE, flag |-> FALSE, error |-> "",
          error_details |-> FALSE, body |-> <<>>]
    ELSE pending.value

\* The outer try/except of the import tool: an exception becomes a dict.
ImportBoundary(pending) ==
    IF pending.exc
    THEN [op |-> "import", raised |-> FALSE, flag |-> FALSE, error |-> ImportFailedMsg,
          error_details |-> TRUE, body |-> <<>>]
    ELSE pending.value

\* The outer try/except of the query tool; msg is str(e).
QueryBoundary(msg) ==
    [op |-> "query", raised |-> FALSE, flag |-> FALSE, error |-> msg,
     error_details |-> TRUE, body |-> <<>>]

\* ------------------------------------------------------------------ store
NullInt == -1

\* A plausible slip: the identity is looked up and an existing row reused.
PatientIdLookup(tables, info, fresh) ==
    IF \E p \in tables.PATIENTS : p.PATIENT_IDENTITY = info.patient_identity
                                   /\ p.DATE_OF_BIRTH = info.date_of_birth
    THEN (CHOOSE p \in tables.PATIENTS : p.PATIENT_IDENTITY = info.patient_identity
                                          /\ p.DATE_OF_BIRTH = info.date_of_birth).PATIENT_ID
    ELSE fresh

\* ensure_patient_exists: the id is always a new uuid4.
PatientId(tables, info, fresh) == fresh

InsertPatient(tables, patient_id, info) ==
    [tables EXCEPT !.PATIENTS = @ \cup
        {[PATIENT_ID |-> patient_id,
          PATIENT_IDENTITY |-> info.patient_identity,
          DATE_OF_BIRTH |-> info.date_of_birth]}]

NewImportRowCompleted(import_id, patient_id, nfiles) ==
    [IMPORT_ID |-> import_id, PATIENT_ID |-> patient_id, SOURCE_FILES |-> nfiles,
     IMPORT_STATUS |-> "COMPLETED", TOTAL_RECORDS |-> NullInt,
     RECORDS_BY_CATEGORY |-> EmptyDict]

\* The row create_import_record inserts; the columns it does not name are NULL.
NewImportRow(import_id, patient_id, nfiles) ==
    [IMPORT_ID |-> import_id, PATIENT_ID |-> patient_id, SOURCE_FILES |-> nfiles,
     IMPORT_STATUS |-> "IN_PROGRESS", TOTAL_RECORDS |-> NullInt,
     RECORDS_BY_CATEGORY |-> EmptyDict]

InsertImport(tables, row) == [tables EXCEPT !.IMPORTS = @ \cup {row}]

\* The tuple bulk_insert_health_records builds of a record: the columns of
\* HEALTH_RECORDS, of which the file the record came from is none.
Row(record) ==
    [record_id |-> record.record_id,
     patient_id |-> record.patient_id,
     import_id |-> record.import_id,
     record_category |-> record.record_category,
     record_date |-> record.record_date,
     item_description |-> record.item_description,
     value_text |-> record.value_text,
     value_numeric |-> record.value_numeric]

\* A plausible slip: the batch loses its last row.
BulkRowsDropLast(records) == {Row(records[i]) : i \in 1..(Len(records) - 1)}

\* The rows executemany writes: one per record.
BulkRows(records) == {Row(records[i]) : i \in 1..Len(records)}

InsertRecords(tables, records) ==
    [tables EXCEPT !.HEALTH_RECORDS = @ \cup BulkRows(records)]

\* update_import_record: one UPDATE ... WHERE IMPORT_ID = import_id.
UpdateImport(tables, import_id, statistics) ==
    [tables EXCEPT !.IMPORTS =
        {IF r.IMPORT_ID = import_id
         THEN [r EXCEPT !.RECORDS_BY_CATEGORY = statistics.records_by_category,
                        !.TOTAL_RECORDS = statistics.total_records,
                        !.IMPORT_STATUS = "COMPLETED"]
         ELSE r : r \in @}]

\* A statement executed on the connection changes the session's view, and the
\* committed tables too when the session commits each statement by itself.
Written(tables) ==
    /\ conn' = [conn EXCEPT !.view = tables]
    /\ store' = IF conn.autocommit THEN tables ELSE store

\* ----------------------------------------------------------- input domains
ValidDob == <<"1", "9", "8", "0", "-", "0", "1", "-", "1", "5">>

GoodHeader == [has_header |-> TRUE, Patient_Name |-> "Alice", Date_Of_Birth |-> ValidDob]

NamelessHeader == [has_header |-> TRUE, Patient_Name |-> AbsentName, Date_Of_Birth |-> ValidDob]

Entries == [section : Sections, date : {AbsentStr}, name : {AbsentStr}, value : {AbsentStr}]

Payloads == SeqsUpTo(Entries, MaxEntries)

\* One import call: every fault and every document of up to MaxEntries entries.
ImportFiles == [header : {NoHeader, GoodHeader}, fault : Faults, data : Payloads]

ImportDirs == {NoDir} \cup [exists : {TRUE}, files : SeqsUpTo(ImportFiles, MaxFiles)]

\* A server that takes several calls: fewer kinds of file.
ServerFiles ==
    [header : {NoHeader, GoodHeader, NamelessHeader}, fault : {"none"},
     data : {<<>>, <<[section |-> "Lab_Results", date |-> AbsentStr, name |-> AbsentStr,
                      value |-> AbsentStr]>>,
             <<[section |-> "Medications", date |-> AbsentStr, name |-> AbsentStr,
                value |-> AbsentStr]>>}]
    \cup [header : {NoHeader}, fault : {"load"}, data : {<<>>}]

ServerDirs == {NoDir} \cup [exists : {TRUE}, files : SeqsUpTo(ServerFiles, MaxFiles)]

Queries == {<<"C", "h", "o", "l", "e", "s", "t", "e", "r", "o", "l", " ", "t", "r", "e", "n", "d", "?">>,
            <<"R", "e", "c", "e", "n", "t", " ", "l", "a", "b", "s">>}

\* dict.get(key) of a missing key, for a value that is otherwise a string.
AbsentKey == "<absent>"

Items ==
    [type : {"sql"}, statement : {AbsentKey, "", "SELECT 1", "SELECT 2"}, text : {AbsentStr}]
    \cup [type : {"text"}, statement : {AbsentKey}, text : {AbsentStr, <<"a">>, <<" ", "b">>}]
    \cup [type : {"suggestions"}, statement : {AbsentKey}, text : {AbsentStr}]

\* A translation response: has_message says whether response["message"]["content"]
\* exists; sql and code are the two alternate top-level keys.
Responses ==
    {r \in [has_message : BOOLEAN, content : SeqsUpTo(Items, MaxItems),
            sql : {AbsentKey, "", "SELECT A"}, code : {AbsentKey, "SELECT C"}] :
        r.has_message \/ r.content = <<>>}

ServerResponses ==
    [has_message : {TRUE},
     content : {<<>>, <<[type |-> "sql", statement |-> "SELECT 1", text |-> AbsentStr]>>,
                <<[type |-> "text", statement |-> AbsentKey, text |-> <<"a">>]>>},
     sql : {AbsentKey, "SELECT A"}, code : {AbsentKey}]

\* A fetched value: its Python type and its payload (the characters of a str,
\* the fields of a date, datetime or time, the number of an int, a float or
\* a Decimal).
StrValue(chars) == [type |-> "str", v |-> chars]

Null == [type |-> "NoneType", v |-> 0]

\* What the store returns for a generated statement: columns and raw rows.
RowSets ==
    {[columns |-> <<<<"I", "T", "E", "M">>, <<"V", "A", "L", "U", "E">>>>, rows |-> <<>>],
     [columns |-> <<<<"I", "T", "E", "M">>, <<"V", "A", "L", "U", "E">>>>,
      rows |-> <<<<StrValue(<<"L", "D", "L">>), [type |-> "Decimal", v |-> 120]>>>>]}

\* ------------------------------------------------------------- import tool
\* The call returns res: its locals are gone, the caller holds res.
Deliver(res) ==
    /\ result' = res
    /\ pc' = "idle"
    /\ call' = NoCall
    /\ dir' = NoDir
    /\ runs' = IF res.op = "import" /\ res.flag
               THEN Append(runs, [directory |-> dir,
                                  patient_id |-> res.body.patient_id,
                                  import_id |-> res.body.import_id,
                                  patient_name |-> res.body.patient_name,
                                  patient_dob |-> res.body.patient_dob,
                                  total_records |-> res.body.total_records])
               ELSE runs

InvokeImport(D, limit) ==
    /\ pc = "idle" /\ calls < limit
    /\ \E d \in D : dir' = d
    /\ pc' = "scan"
    /\ calls' = calls + 1
    /\ call' = NoCall
    /\ result' = NoResult
    /\ events' = <<>>
    /\ before' = store
    /\ conn' = NoConn
    /\ UNCHANGED <<store, nextId, runs, pureVars>>

\* A plausible slip: the check for an empty file list is missing.
ScanOutcomeNoEmptyCheck(d) ==
    IF ~d.exists THEN DirNotFoundMsg
    ELSE IF ~Qualifies(ScanPatientInfo(d.files)) THEN MissingPatientMsg
    ELSE ""

\* The three early returns before the connection is opened: the error each
\* reports, "" when the import goes on.
ScanOutcome(d) ==
    IF ~d.exists THEN DirNotFoundMsg
    ELSE IF d.files = <<>> THEN NoSourceFilesMsg
    ELSE IF ~Qualifies(ScanPatientInfo(d.files)) THEN MissingPatientMsg
    ELSE ""

Scan ==
    /\ pc = "scan"
    /\ IF ScanOutcome(dir) # ""
       THEN Deliver(ImportError(ScanOutcome(dir)))
       ELSE /\ call' = [call EXCEPT !.nfiles = Len(dir.files),
                                    !.patient_info = ScanPatientInfo(dir.files),
                                    !.idx = 1]
            /\ pc' = "connect"
            /\ UNCHANGED <<dir, result, runs>>
    /\ UNCHANGED <<store, conn, events, before, calls, nextId, pureVars>>

\* get_snowflake_connection: the key load or the connect may fail; the session
\* commits each statement by itself or not, as the account is configured (the
\* code passes no autocommit argument).
Connect ==
    /\ pc = "connect"
    /\ \E ok \in BOOLEAN, ac \in BOOLEAN :
        IF ok
        THEN /\ conn' = [state |-> "open", autocommit |-> ac, view |-> store]
             /\ events' = Append(events, "connect")
             /\ pc' = "patient"
             /\ UNCHANGED <<dir, call, result, runs>>
        ELSE /\ Deliver(ImportBoundary([exc |-> TRUE, value |-> <<>>]))
             /\ UNCHANGED <<conn, events>>
    /\ UNCHANGED <<store, before, calls, nextId, pureVars>>

\* An exception inside the inner try: the finally clause runs next.
Raise ==
    /\ call' = [call EXCEPT !.pending = [exc |-> TRUE, value |-> <<>>]]
    /\ pc' = "close"
    /\ UNCHANGED <<store, conn, events, nextId>>

\* How a function that writes through a cursor of its own ends: its statement
\* raised (or conn.cursor() did), it returned, or its statement was executed
\* and cursor.close() raised in the finally clause.
WriteOutcomes == {"raised", "returned", "close_raised"}

\* The exception of a cursor.close() that raised after the statement: the
\* function returns nothing, the finally clause of the tool runs next.
CloseRaised(c) == [c EXCEPT !.pending = [exc |-> TRUE, value |-> <<>>]]

EnsurePatient ==
    /\ pc = "patient"
    /\ \E out \in WriteOutcomes :
        IF out = "raised" THEN Raise
        ELSE LET pid == PatientId(conn.view, call.patient_info, nextId + 1)
             IN  /\ Written(InsertPatient(conn.view, pid, call.patient_info))
                 /\ nextId' = nextId + 1
                 /\ events' = Append(events, "insert_patient")
                 /\ call' = IF out = "returned" THEN [call EXCEPT !.patient_id = pid]
                            ELSE CloseRaised(call)
                 /\ pc' = IF out = "returned" THEN "import" ELSE "close"
    /\ UNCHANGED <<dir, result, before, calls, runs, pureVars>>

CreateImportRecord ==
    /\ pc = "import"
    /\ \E out \in WriteOutcomes :
        IF out = "raised" THEN Raise
        ELSE /\ Written(InsertImport(conn.view,
                                     NewImportRow(nextId + 1, call.patient_id, call.nfiles)))
             /\ nextId' = nextId + 1
             /\ events' = Append(events, "insert_import")
             /\ call' = IF out = "returned" THEN [call EXCEPT !.import_id = nextId + 1]
                        ELSE CloseRaised(call)
             /\ pc' = IF out = "returned" THEN "files" ELSE "close"
    /\ UNCHANGED <<dir, result, before, calls, runs, pureVars>>

\* One iteration of the loop over source_files.
ProcessFile ==
    /\ pc = "files" /\ call.idx <= call.nfiles
    /\ LET recs == FileRecords(dir.files[call.idx], call.patient_id, call.import_id,
                               call.idx, nextId)
       IN  /\ call' = [call EXCEPT !.all_records = @ \o recs, !.idx = @ + 1]
           /\ nextId' = nextId + Len(recs)
    /\ UNCHANGED <<store, conn, pc, dir, result, events, before, calls, runs, pureVars>>

\* A plausible slip: the batch is never written, the run is finalized at once.
EndOfFilesNoBulk ==
    /\ pc = "files" /\ call.idx > call.nfiles
    /\ IF call.all_records = <<>>
       THEN /\ call' = [call EXCEPT !.pending =
                            [exc |-> FALSE, value |-> ImportError(NoRecordsMsg)]]
            /\ pc' = "close"
       ELSE /\ pc' = "update"
            /\ UNCHANGED call
    /\ UNCHANGED <<store, conn, dir, result, events, before, calls, nextId, runs, pureVars>>

\* A plausible slip: an empty batch is written and finalized like any other.
EndOfFilesNoEmptyCheck ==
    /\ pc = "files" /\ call.idx > call.nfiles
    /\ pc' = "bulk"
    /\ UNCHANGED <<store, conn, dir, call, result, events, before, calls, nextId, runs,
                   pureVars>>

\* After the loop: an empty batch returns the no-records error.
EndOfFiles ==
    /\ pc = "files" /\ call.idx > call.nfiles
    /\ IF call.all_records = <<>>
       THEN /\ call' = [call EXCEPT !.pending =
                            [exc |-> FALSE, value |-> ImportError(NoRecordsMsg)]]
            /\ pc' = "close"
       ELSE /\ pc' = "bulk"
            /\ UNCHANGED call
    /\ UNCHANGED <<store, conn, dir, result, events, before, calls, nextId, runs, pureVars>>

BulkInsert ==
    /\ pc = "bulk"
    /\ \E out \in WriteOutcomes :
        IF out = "raised" THEN Raise
        ELSE /\ Written(InsertRecords(conn.view, call.all_records))
             /\ events' = Append(events, "bulk_insert")
             /\ call' = IF out = "returned" THEN call ELSE CloseRaised(call)
             /\ pc' = IF out = "returned" THEN "update" ELSE "close"
             /\ UNCHANGED nextId
    /\ UNCHANGED <<dir, result, before, calls, runs, pureVars>>

\* calculate_import_statistics, then update_import_record.
UpdateImportRecord ==
    /\ pc = "update"
    /\ \E out \in WriteOutcomes :
        IF out = "raised" THEN Raise
        ELSE /\ Written(UpdateImport(conn.view, call.import_id,
                                     calculate_import_statistics(call.all_records)))
             /\ events' = Append(events, "update_import")
             /\ call' = IF out = "returned" THEN call ELSE CloseRaised(call)
             /\ pc' = IF out = "returned" THEN "commit" ELSE "close"
             /\ UNCHANGED nextId
    /\ UNCHANGED <<dir, result, before, calls, runs, pureVars>>

\* conn.commit(), then the success dict is the value to return.
Commit ==
    /\ pc = "commit"
    /\ \E ok \in BOOLEAN :
        IF ok
        THEN /\ store' = conn.view
             /\ events' = Append(events, "commit")
             /\ call' = [call EXCEPT !.pending =
                            [exc |-> FALSE,
                             value |-> ImportSuccess(call.patient_info, call.patient_id,
                                          call.import_id, call.all_records,
                                          calculate_import_statistics(call.all_records))]]
             /\ pc' = "close"
             /\ UNCHANGED <<conn, nextId>>
        ELSE Raise
    /\ UNCHANGED <<dir, result, before, calls, runs, pureVars>>

\* finally: conn.close().  What the session did not commit is gone with it;
\* a close that raises replaces the value being returned.
Close ==
    /\ pc = "close"
    /\ \E ok \in BOOLEAN :
        /\ events' = Append(events, IF ok THEN "close" ELSE "close_failed")
        /\ Deliver(ImportBoundary(IF ok THEN call.pending
                                  ELSE [exc |-> TRUE, value |-> <<>>]))
    /\ conn' = [state |-> "closed", autocommit |-> FALSE, view |-> EmptyTables]
    /\ UNCHANGED <<store, before, calls, nextId, pureVars>>

ImportSteps ==
    \/ Scan \/ Connect \/ EnsurePatient \/ CreateImportRecord \/ ProcessFile
    \/ EndOfFiles \/ BulkInsert \/ UpdateImportRecord \/ Commit \/ Close

\* -------------------------------------------------------------- query tool
InvokeQuery(limit) ==
    /\ pc = "idle" /\ calls < limit
    /\ \E q \in Queries : call' = [NoCall EXCEPT !.query = q]
    /\ pc' = "cortex"
    /\ calls' = calls + 1
    /\ result' = NoResult
    /\ events' = <<>>
    /\ before' = store
    /\ conn' = NoConn
    /\ UNCHANGED <<store, dir, nextId, runs, pureVars>>

\* A plausible slip: a request that failed is sent once more.
CallCortexRetry(R) ==
    /\ pc = "cortex"
    /\ \/ /\ Deliver(QueryBoundary(CortexFailedMsg))
          /\ UNCHANGED events
       \/ /\ Contains(events, "cortex_request")
          /\ Deliver(QueryBoundary(CortexFailedMsg))
          /\ events' = events \o <<"build_assertion", "cortex_request">>
       \/ /\ ~Contains(events, "cortex_request")
          /\ events' = events \o <<"build_assertion", "cortex_request">>
          /\ UNCHANGED <<pc, call, dir, result, runs>>
       \/ /\ \E r \in R : call' = [call EXCEPT !.response = r]
          /\ events' = events \o <<"build_assertion", "cortex_request">>
          /\ pc' = "extract"
          /\ UNCHANGED <<dir, result, runs>>
    /\ UNCHANGED <<store, conn, before, calls, nextId, pureVars>>

\* call_cortex_analyst: the key load or the signing fails before any request
\* is sent; a request that is sent (one requests.post, no retry) ends in an
\* error (transport, non-2xx status, a body that is no JSON) or in a parsed
\* response.  Every failure is raised again as "Cortex Analyst call failed: ...".
CallCortex(R) ==
    /\ pc = "cortex"
    /\ \/ /\ Deliver(QueryBoundary(CortexFailedMsg))
          /\ UNCHANGED events
       \/ /\ Deliver(QueryBoundary(CortexFailedMsg))
          /\ events' = events \o <<"build_assertion", "cortex_request">>
       \/ /\ \E r \in R : call' = [call EXCEPT !.response = r]
          /\ events' = events \o <<"build_assertion", "cortex_request">>
          /\ pc' = "extract"
          /\ UNCHANGED <<dir, result, runs>>
    /\ UNCHANGED <<store, conn, before, calls, nextId, pureVars>>

\* str.find(c): the 0-based index of the first c in s, or -1.
Find(s, c) ==
    IF Contains(s, c) THEN (CHOOSE i \in 1..Len(s) : s[i] = c /\ \A j \in 1..(i - 1) : s[j] # c) - 1
    ELSE -1

\* A plausible slip: the cut is made at a leading '.' too (idx >= 0).
clean_account_identifierAnyDot(acct) ==
    LET cut == IF ~HasSub(acct, <<".", "g", "l", "o", "b", "a", "l">>) /\ Find(acct, ".") >= 0
               THEN SubSeq(acct, 1, Find(acct, "."))
               ELSE acct
    IN  Upper([i \in 1..Len(cut) |-> IF cut[i] = "." THEN "-" ELSE cut[i]])

\* clean_account_identifier of call_cortex_analyst: without '.global' the
\* account is cut before its first '.', if that is not its first character;
\* then every '.' becomes '-' and the letters are upper-cased.
clean_account_identifier(acct) ==
    LET cut == IF ~HasSub(acct, <<".", "g", "l", "o", "b", "a", "l">>) /\ Find(acct, ".") > 0
               THEN SubSeq(acct, 1, Find(acct, "."))
               ELSE acct
    IN  Upper([i \in 1..Len(cut) |-> IF cut[i] = "." THEN "-" ELSE cut[i]])

\* dict.get of a key: None and "" are both falsy, and both are "" here.
GetStr(v) == IF v = AbsentKey THEN "" ELSE v

\* content_item.get("text", ""), a text being the sequence of its characters.
GetText(v) == IF v = AbsentStr THEN <<>> ELSE v

\* The loop over the content items: the statement of a "sql" item replaces
\* sql; the text of a "text" item and two newlines are appended to the
\* interpretation.
RECURSIVE ScanItems(_, _)
ScanItems(items, acc) ==
    IF items = <<>> THEN acc
    ELSE LET it == Head(items)
             a1 == IF it.type = "sql" THEN [acc EXCEPT !.sql = GetStr(it.statement)] ELSE acc
             a2 == IF it.type = "text"
                   THEN [a1 EXCEPT !.interpretation = @ \o GetText(it.text) \o <<"\n", "\n">>]
                   ELSE a1
         IN  ScanItems(Tail(items), a2)

\* The extraction of execute_health_query_v2: content items first, then the
\* top-level key "sql" if present, else the top-level key "code" if present.
ExtractSql(response) ==
    LET found == IF response.has_message
                 THEN ScanItems(response.content, [sql |-> "", interpretation |-> <<>>])
                 ELSE [sql |-> "", interpretation |-> <<>>]
    IN  IF found.sql # "" THEN found
        ELSE IF response.sql # AbsentKey THEN [found EXCEPT !.sql = response.sql]
        ELSE IF response.code # AbsentKey THEN [found EXCEPT !.sql = response.code]
        ELSE found

ExtractionError(query, response) ==
    [op |-> "query", raised |-> FALSE, flag |-> FALSE, error |-> ExtractionMsg,
     error_details |-> FALSE, body |-> [query |-> query, cortex_response |-> response]]

\* A plausible slip: the second `if not sql` return is missing.
MissingSqlNever(sql) == FALSE

\* `if not sql`: nothing was extracted.
MissingSql(sql) == sql = ""

ExtractQuery ==
    /\ pc = "extract"
    /\ LET ex == ExtractSql(call.response)
       IN  IF MissingSql(ex.sql)
           THEN Deliver(ExtractionError(call.query, call.response))
           ELSE /\ call' = [call EXCEPT !.sql = ex.sql, !.interpretation = ex.interpretation]
                /\ pc' = "execute"
                /\ UNCHANGED <<dir, result, runs>>
    /\ events' = Append(events, "extract_query")
    /\ UNCHANGED <<store, conn, before, calls, nextId, pureVars>>

\* date.isoformat() and datetime.isoformat() of a naive value with no
\* microseconds.
IsoFormat(x) ==
    Pad(x.v[1], 4) \o <<"-">> \o Pad(x.v[2], 2) \o <<"-">> \o Pad(x.v[3], 2)
    \o (IF x.type = "datetime"
        THEN <<"T">> \o Pad(x.v[4], 2) \o <<":">> \o Pad(x.v[5], 2) \o <<":">> \o Pad(x.v[6], 2)
        ELSE <<>>)

\* The conversion of one fetched value: dates and datetimes to their ISO
\* string, Decimal to float, anything else as it is.
NormalizeValue(x) ==
    IF x.type \in {"date", "datetime"} THEN StrValue(IsoFormat(x))
    ELSE IF x.type = "Decimal" THEN [type |-> "float", v |-> x.v]
    ELSE x

\* dict(zip(columns, row)) as the sequence of its items: one item for each
\* distinct column name, in the order of first appearance, holding the value
\* of the last column of that name.
Dict(columns, row) ==
    LET first == SelectSeq([i \in 1..Len(columns) |-> i],
                           LAMBDA i : \A j \in 1..(i - 1) : columns[j] # columns[i])
        last(i) == CHOOSE j \in i..Len(columns) :
                       /\ columns[j] = columns[i]
                       /\ \A k \in (j + 1)..Len(columns) : columns[k] # columns[i]
    IN  [n \in 1..Len(first) |-> [k |-> columns[first[n]], x |-> row[last(first[n])]]]

NormalizeRows(columns, rows) ==
    [i \in 1..Len(rows) |->
        Dict(columns, [j \in 1..Len(rows[i]) |-> NormalizeValue(rows[i][j])])]

\* The topic of a query: the first keyword found in the lowercased text.
Topic(query) ==
    LET query_lower == Lower(query)
    IN  IF HasSub(query_lower, <<"c", "h", "o", "l", "e", "s", "t", "e", "r", "o", "l">>)
        THEN [data_category |-> "lab_results", health_focus |-> "cardiovascular"]
        ELSE IF HasSub(query_lower, <<"m", "e", "d", "i", "c", "a", "t", "i", "o", "n">>)
        THEN [data_category |-> "medications", health_focus |-> "treatment"]
        ELSE IF HasSub(query_lower, <<"b", "l", "o", "o", "d", " ", "p", "r", "e", "s", "s", "u", "r", "e">>)
        THEN [data_category |-> "vitals", health_focus |-> "cardiovascular"]
        ELSE IF \/ HasSub(query_lower, <<"h", "b", "a", "1", "c">>)
                \/ HasSub(query_lower, <<"g", "l", "u", "c", "o", "s", "e">>)
        THEN [data_category |-> "lab_results", health_focus |-> "diabetes"]
        ELSE [data_category |-> "general", health_focus |-> "general"]

\* isinstance(v, (int, float)); bool is a subclass of int.
IsIntOrFloat(x) == x.type \in {"int", "float", "bool"}

\* An empty result gives the message alone; otherwise the row count, and from
\* the FIRST row the column names and the two flags, then the topic.
calculate_health_metrics(query, results) ==
    IF results = <<>> THEN [message |-> "No data to analyze"]
    ELSE [row_count |-> Len(results),
          columns |-> [i \in 1..Len(results[1]) |-> results[1][i].k],
          has_date_data |-> \E i \in 1..Len(results[1]) :
                               HasSub(Lower(results[1][i].k), <<"d", "a", "t", "e">>),
          has_numeric_data |-> \E i \in 1..Len(results[1]) : IsIntOrFloat(results[1][i].x),
          data_category |-> Topic(query).data_category,
          health_focus |-> Topic(query).health_focus]

QuerySuccess(query, interpretation, sql, results) ==
    [op |-> "query", raised |-> FALSE, flag |-> TRUE, error |-> "", error_details |-> FALSE,
     body |-> [query |-> query, interpretation |-> Strip(interpretation), sql |-> sql,
               results |-> results, result_count |-> Len(results),
               data_metrics |-> calculate_health_metrics(query, results)]]

\* The finally clause of execute_query, reached with the steps done so far
\* and the value the function is about to return or the exception it is
\* about to raise (res: what the tool returns then, followed by the steps of
\* tail).  cursor.close() comes first, if a cursor was made: when it raises,
\* conn.close() is not reached and the connection stays open.  Then
\* conn.close(), which may raise too.  Either exception replaces the outcome
\* of the function and reaches the tool's handler as it is.
QueryFinally(done, has_cursor, res, tail) ==
    \/ /\ has_cursor
       /\ Deliver(QueryBoundary(DriverMsg))
       /\ events' = events \o done
       /\ \E ac \in BOOLEAN : conn' = [state |-> "open", autocommit |-> ac, view |-> store]
    \/ /\ Deliver(QueryBoundary(DriverMsg))
       /\ events' = events \o done \o <<"query_close_failed">>
       /\ UNCHANGED conn
    \/ /\ Deliver(res)
       /\ events' = events \o done \o <<"query_close">> \o tail
       /\ UNCHANGED conn

\* execute_query and the return: the function opens its own connection, runs
\* the statement once, converts the rows and closes cursor and connection in
\* its finally clause; a failure to connect, to make the cursor, to execute
\* or to fetch is raised again as "SQL execution failed: ...".  The metrics
\* are computed after execute_query has returned.
ExecuteQuery ==
    /\ pc = "execute"
    /\ \/ /\ Deliver(QueryBoundary(SqlFailedMsg))
          /\ UNCHANGED <<events, conn>>
       \/ QueryFinally(<<"query_connect">>, FALSE, QueryBoundary(SqlFailedMsg), <<>>)
       \/ QueryFinally(<<"query_connect", "query_execute">>, TRUE,
                       QueryBoundary(SqlFailedMsg), <<>>)
       \/ \E rs \in RowSets :
            QueryFinally(<<"query_connect", "query_execute", "normalize">>, TRUE,
                         QuerySuccess(call.query, call.interpretation, call.sql,
                                      NormalizeRows(rs.columns, rs.rows)),
                         <<"classify">>)
    /\ UNCHANGED <<store, before, calls, nextId, pureVars>>

QuerySteps == CallCortex(Responses) \/ ExtractQuery \/ ExecuteQuery

\* --------------------------------------------------------- specifications
Init ==
    /\ store = EmptyTables
    /\ conn = NoConn
    /\ pc = "idle"
    /\ dir = NoDir
    /\ call = NoCall
    /\ result = NoResult
    /\ events = <<>>
    /\ before = EmptyTables
    /\ calls = 0
    /\ nextId = 0
    /\ runs = <<>>
    /\ pureIn = <<>>
    /\ pureOut = <<>>

\* The server: up to MaxCalls calls of either tool, one after the other.
Next ==
    \/ InvokeImport(ServerDirs, MaxCalls)
    \/ InvokeQuery(MaxCalls)
    \/ ImportSteps
    \/ CallCortex(ServerResponses) \/ ExtractQuery \/ ExecuteQuery

Spec == Init /\ [][Next]_vars

\* One import call over every directory of ImportDirs.
NextImport == InvokeImport(ImportDirs, 1) \/ ImportSteps

SpecImport == Init /\ [][NextImport]_vars

\* One query call over every response of Responses.
NextQuery == InvokeQuery(1) \/ QuerySteps

SpecQuery == Init /\ [][NextQuery]_vars

\* The statistics aggregator applied to every record list of StatInputs.
StatCategories == {"LAB", "MEDICATION", "VITAL", "CONDITION", "PROCEDURE", "ALLERGY",
                   "IMMUNIZATION", "Unknown"}

StatRecords ==
    [record_category : StatCategories, record_date : {NoDate, <<2024, 3, 1>>},
     item_description : {AbsentStr}]

\* Records that tell the insights apart: lab results with and without a name
\* and a date, medications on both sides of the cutoff, a vital sign.
InsightDates == {NoDate, <<2023, 12, 31>>, <<2024, 1, 1>>, <<2025, 6, 1>>}

InsightRecords ==
    [record_category : {"LAB"}, record_date : InsightDates,
     item_description : {AbsentStr, <<>>, <<"L", "D", "L">>, <<"H", "D", "L">>}]
    \cup [record_category : {"MEDICATION"}, record_date : InsightDates,
          item_description : {<<"L", "D", "L">>}]
    \cup [record_category : {"VITAL"}, record_date : {NoDate, <<2025, 6, 1>>},
          item_description : {AbsentStr}]

StatInputs ==
    SeqsUpTo(StatRecords, MaxStatRecords) \cup SeqsUpTo(InsightRecords, MaxStatRecords)

InitStats ==
    /\ Init!1 /\ Init!2 /\ Init!4 /\ Init!5 /\ Init!6 /\ Init!7 /\ Init!8 /\ Init!9
    /\ Init!10 /\ Init!11
    /\ pc = "stats"
    /\ pureIn \in StatInputs
    /\ pureOut = <<>>

ApplyStatistics ==
    /\ pc = "stats"
    /\ pc' = "stats_done"
    /\ pureOut' = calculate_import_statistics(pureIn)
    /\ UNCHANGED <<store, conn, dir, call, result, events, before, calls, nextId, runs, pureIn>>

SpecStats == InitStats /\ [][ApplyStatistics]_vars

\* The extractors applied to every one-entry document of ExtractInputs.
ValueChars == {"0", "1", ".", "-", " ", "\r", "/"}

RawValues == {AbsentStr} \cup SeqsUpTo(ValueChars, MaxValueLen)

ExtractInputs ==
    [section : Sections, date : {AbsentStr, ValidDob}, name : {AbsentStr}, value : RawValues]

InitExtract ==
    /\ Init!1 /\ Init!2 /\ Init!4 /\ Init!5 /\ Init!6 /\ Init!7 /\ Init!8 /\ Init!9
    /\ Init!10 /\ Init!11
    /\ pc = "extract"
    /\ pureIn \in ExtractInputs
    /\ pureOut = <<>>

ApplyExtract ==
    /\ pc = "extract"
    /\ pc' = "extract_done"
    /\ pureOut' = FileRecords([header |-> GoodHeader, fault |-> "none", data |-> <<pureIn>>],
                              1, 2, 1, 2)
    /\ UNCHANGED <<store, conn, dir, call, result, events, before, calls, nextId, runs, pureIn>>

SpecExtract == InitExtract /\ [][ApplyExtract]_vars

\* The date parser applied to every string of DateInputs: year, month and day
\* fields in both orders or an ISO week, with each separator, bare or followed
\* by a time and offset; and the inputs that are no dates at all.
DateYears == {<<"2", "0", "2", "4">>, <<"2", "0", "2", "3">>, <<"2", "0", "2", "0">>}

DateMonths == {<<"0", "1">>, <<"0", "2">>, <<"1", "3">>}

DateDays == {<<"1", "5">>, <<"2", "9">>, <<"3", "0">>, <<" ", "5">>}

DateSeparators == {<<>>, <<"-">>, <<"/">>}

DateWeeks == {<<"W", "0", "1">>, <<"W", "5", "3">>}

DateWeekDays == {<<>>, <<"1">>, <<"-", "1">>, <<"-", "8">>}

DateTimes ==
    {<<>>, <<"T", "1", "0", ":", "3", "0", ":", "0", "0", "Z">>,
     <<"T", "1", "0", ":", "3", "0", ":", "0", "0", ".", "5", "+", "0", "5", ":", "3", "0">>,
     <<" ", "1", "0", ":", "3", "0">>,
     <<"T", "2", "4", ":", "0", "0">>}

DateInputs ==
    {AbsentStr, <<>>, NotAString}
    \cup {y \o a \o m \o b \o d \o t : y \in DateYears, a \in DateSeparators, m \in DateMonths,
                                       b \in DateSeparators, d \in DateDays, t \in DateTimes}
    \cup {m \o a \o d \o b \o y : y \in DateYears, a \in DateSeparators, m \in DateMonths,
                                  b \in DateSeparators, d \in DateDays}
    \cup {y \o a \o w \o d \o t : y \in DateYears, a \in DateSeparators, w \in DateWeeks,
                                  d \in DateWeekDays, t \in DateTimes}

InitDates ==
    /\ Init!1 /\ Init!2 /\ Init!4 /\ Init!5 /\ Init!6 /\ Init!7 /\ Init!8 /\ Init!9
    /\ Init!10 /\ Init!11
    /\ pc = "date"
    /\ pureIn \in DateInputs
    /\ pureOut = <<>>

ApplyDate ==
    /\ pc = "date"
    /\ pc' = "date_done"
    /\ pureOut' = DateOutcome(pureIn)
    /\ UNCHANGED <<store, conn, dir, call, result, events, before, calls, nextId, runs, pureIn>>

SpecDates == InitDates /\ [][ApplyDate]_vars

\* The row conversion and the metrics applied to every query of ResultQueries
\* and every result of up to MaxRows rows of two columns.
ResultPhrases ==
    {<<"C", "h", "o", "l", "e", "s", "t", "e", "r", "o", "l">>,
     <<"m", "e", "d", "i", "c", "a", "t", "i", "o", "n">>,
     <<"B", "l", "o", "o", "d", " ", "P", "r", "e", "s", "s", "u", "r", "e">>,
     <<"H", "b", "A", "1", "c">>, <<"g", "l", "u", "c", "o", "s", "e">>,
     <<"l", "a", "b", "s">>}

ResultQueries == ResultPhrases \cup {p \o <<" ">> \o q : p, q \in ResultPhrases}

ResultColumns ==
    {<<<<"I", "T", "E", "M">>, <<"V", "A", "L", "U", "E">>>>,
     <<<<"T", "e", "s", "t", "_", "D", "a", "t", "e">>, <<"V", "A", "L", "U", "E">>>>,
     <<<<"V", "A", "L", "U", "E">>, <<"V", "A", "L", "U", "E">>>>}

ResultRows ==
    {<<a, b>> : a \in {StrValue(<<"L", "D", "L">>), [type |-> "date", v |-> <<2024, 3, 1>>]},
                b \in {Null, [type |-> "float", v |-> 55], [type |-> "Decimal", v |-> 120],
                       [type |-> "bool", v |-> TRUE],
                       [type |-> "datetime", v |-> <<2024, 3, 1, 8, 30, 0>>],
                       [type |-> "time", v |-> <<8, 30, 0>>]}}

ResultInputs ==
    [query : ResultQueries, columns : ResultColumns, rows : SeqsUpTo(ResultRows, MaxRows)]

InitResults ==
    /\ Init!1 /\ Init!2 /\ Init!4 /\ Init!5 /\ Init!6 /\ Init!7 /\ Init!8 /\ Init!9
    /\ Init!10 /\ Init!11
    /\ pc = "results"
    /\ pureIn \in ResultInputs
    /\ pureOut = <<>>

ApplyResults ==
    /\ pc = "results"
    /\ pc' = "results_done"
    /\ pureOut' = [results |-> NormalizeRows(pureIn.columns, pureIn.rows),
                   data_metrics |-> calculate_health_metrics(
                                        pureIn.query,
                                        NormalizeRows(pureIn.columns, pureIn.rows))]
    /\ UNCHANGED <<store, conn, dir, call, result, events, before, calls, nextId, runs, pureIn>>

SpecResults == InitResults /\ [][ApplyResults]_vars

\* The account normalization applied to every account of AccountInputs: up to
\* MaxAccountLen characters, then nothing or a region suffix, then up to one
\* more character.
AccountChars == {"a", "B", ".", "-"}

AccountInputs ==
    {a \o g \o b : a \in SeqsUpTo(AccountChars, MaxAccountLen),
                   g \in {<<>>, <<".", "g", "l", "o", "b", "a", "l">>,
                          <<".", "G", "l", "o", "b", "a", "l">>},
                   b \in SeqsUpTo({"x", "."}, 1)}

InitAccount ==
    /\ Init!1 /\ Init!2 /\ Init!4 /\ Init!5 /\ Init!6 /\ Init!7 /\ Init!8 /\ Init!9
    /\ Init!10 /\ Init!11
    /\ pc = "account"
    /\ pureIn \in AccountInputs
    /\ pureOut = <<>>

ApplyAccount ==
    /\ pc = "account"
    /\ pc' = "account_done"
    /\ pureOut' = clean_account_identifier(pureIn)
    /\ UNCHANGED <<store, conn, dir, call, result, events, before, calls, nextId, runs, pureIn>>

SpecAccount == InitAccount /\ [][ApplyAccount]_vars

\* Patient resolution applied to every list of headers of ResolveInputs.
ResolveDobs ==
    {AbsentStr, <<>>, ValidDob,
     <<"1", "9", "8", "0", "-", "1", "3", "-", "1", "5">>,
     <<"0", "1", "/", "1", "5", "/", "1", "9", "8", "0">>,
     <<"1", "9", "8", "0", "-", "0", "1", "-", "1", "5", "T", "0", "8", ":", "3", "0", ":",
       "0", "0", "Z">>,
     <<"J", "a", "n", " ", "1", "5">>}

ResolveHeaders ==
    {NoHeader} \cup [has_header : {TRUE}, Patient_Name : {AbsentName, "", "Alice"},
                     Date_Of_Birth : ResolveDobs]

ResolveFiles == [header : ResolveHeaders, fault : {"none"}, data : {<<>>}]
                \cup [header : {GoodHeader}, fault : {"load"}, data : {<<>>}]

ResolveInputs == SeqsUpTo(ResolveFiles, MaxFiles)

InitResolve ==
    /\ Init!1 /\ Init!2 /\ Init!4 /\ Init!5 /\ Init!6 /\ Init!7 /\ Init!8 /\ Init!9
    /\ Init!10 /\ Init!11
    /\ pc = "resolve"
    /\ pureIn \in ResolveInputs
    /\ pureOut = <<>>

ApplyResolve ==
    /\ pc = "resolve"
    /\ pc' = "resolve_done"
    /\ pureOut' = [info |-> ScanPatientInfo(pureIn),
                   error |-> ScanOutcome([exists |-> TRUE, files |-> pureIn])]
    /\ UNCHANGED <<store, conn, dir, call, result, events, before, calls, nextId, runs, pureIn>>

SpecResolve == InitResolve /\ [][ApplyResolve]_vars

\* ------------------------------------------------------------------ claims
Has(seq, x) == \E i \in 1..Len(seq) : seq[i] = x

Occurrences(seq, x) == Cardinality({i \in 1..Len(seq) : seq[i] = x})

ImportEnded == pc = "idle" /\ result.op = "import"

\* C1: an import commits at most once, and only after the patient insert, the
\* import-run insert, the bulk insert and the finalize all succeeded; an import
\* that fails or returns early after the connection was opened leaves the
\* visible tables as they were before the call.
C1_AtomicImport ==
    /\ Occurrences(events, "commit") <= 1
    /\ Has(events, "commit") =>
          SubSeq(events, 1, 6) = <<"connect", "insert_patient", "insert_import",
                                   "bulk_insert", "update_import", "commit">>
    /\ (ImportEnded /\ ~result.flag /\ Has(events, "connect")) => store = before

\* C2: every finished call of either tool returned a dict with its flag, and
\* with an error message when the flag is false; no exception left the tool.
C2_StructuredResult ==
    (pc = "idle" /\ calls > 0) =>
        /\ result.op \in {"import", "query"}
        /\ ~result.raised
        /\ ~result.flag => result.error # ""

C2_Witness ==
    /\ pc = "idle" /\ result.op = "import" /\ ~result.flag
    /\ result.error = ImportFailedMsg /\ result.error_details
    /\ Has(events, "insert_patient")

AllImportRows == store.IMPORTS \cup conn.view.IMPORTS

\* C3: an import-run row appears with status IN_PROGRESS and NULL totals; the
\* only change a row ever sees is the finalize of its own run, which sets
\* counts, total and COMPLETED together; a COMPLETED row never changes; no
\* other status is ever written, and the row of a run that failed before its
\* finalize is IN_PROGRESS wherever it is visible.
C3_RunLifecycle ==
    [][ /\ \A r2 \in AllImportRows' :
            /\ r2.IMPORT_STATUS \in {"IN_PROGRESS", "COMPLETED"}
            /\ r2.IMPORT_STATUS = "IN_PROGRESS" =>
                  r2.TOTAL_RECORDS = NullInt /\ r2.RECORDS_BY_CATEGORY = EmptyDict
            /\ (\A r \in AllImportRows : r.IMPORT_ID # r2.IMPORT_ID) =>
                  pc = "import" /\ r2.IMPORT_STATUS = "IN_PROGRESS"
            /\ \A r \in AllImportRows :
                  (r.IMPORT_ID = r2.IMPORT_ID /\ r # r2) =>
                      /\ pc = "update" /\ r.IMPORT_ID = call.import_id
                      /\ r.IMPORT_STATUS = "IN_PROGRESS"
                      /\ r2 = [r EXCEPT !.IMPORT_STATUS = "COMPLETED",
                                        !.TOTAL_RECORDS = Len(call.all_records),
                                        !.RECORDS_BY_CATEGORY =
                                            calculate_import_statistics(call.all_records).records_by_category]
        /\ (ImportEnded' /\ ~Has(events', "update_import")) =>
              \A r \in store'.IMPORTS \ before'.IMPORTS : r.IMPORT_STATUS = "IN_PROGRESS"
      ]_vars

C3_Witness ==
    /\ ImportEnded /\ ~result.flag /\ ~Has(events, "update_import")
    /\ \E r \in store.IMPORTS \ before.IMPORTS : r.IMPORT_STATUS = "IN_PROGRESS"
    /\ \E r \in before.IMPORTS : r.IMPORT_STATUS = "COMPLETED"

RecordsOf(tables, import_id) == {h \in tables.HEALTH_RECORDS : h.import_id = import_id}

\* C4: in the committed tables and in the session's view, a COMPLETED
\* import-run row carries as TOTAL_RECORDS the number of HEALTH_RECORDS rows of
\* its import id, and a successful import returns that same number.
C4_TotalMatchesRows ==
    /\ \A t \in {store, conn.view} : \A r \in t.IMPORTS :
          r.IMPORT_STATUS = "COMPLETED" =>
              r.TOTAL_RECORDS = Cardinality(RecordsOf(t, r.IMPORT_ID))
    /\ (ImportEnded /\ result.flag) =>
          \E r \in store.IMPORTS :
              /\ r.IMPORT_ID = result.body.import_id
              /\ r.IMPORT_STATUS = "COMPLETED"
              /\ r.TOTAL_RECORDS = result.body.total_records
              /\ result.body.total_records = result.body.statistics.total_records

C4_Witness ==
    /\ ImportEnded /\ result.flag /\ result.body.total_records = 2
    /\ \E r \in store.IMPORTS : r.IMPORT_STATUS = "COMPLETED" /\ r.TOTAL_RECORDS = 2

\* The display label the specification gives each category.
LabelOf(category) ==
    CASE category = "MEDICATION" -> "Medications"
      [] category = "LAB" -> "Lab Results"
      [] category = "VITAL" -> "Vitals"
      [] OTHER -> "Clinical Data"

\* C5: the category counts add up to total_records, which is the length of
\* the record list, and each of the four labels counts exactly the records
\* whose category maps to it.
C5_CategoryCounts ==
    pc = "stats_done" =>
        /\ pureOut.total_records = Len(pureIn)
        /\ SumValues(pureOut.records_by_category) = pureOut.total_records
        /\ DOMAIN pureOut.records_by_category \subseteq Labels
        /\ \A l \in Labels :
              LET n == Cardinality({i \in 1..Len(pureIn) :
                                       LabelOf(pureIn[i].record_category) = l})
              IN  IF n = 0 THEN l \notin DOMAIN pureOut.records_by_category
                  ELSE l \in DOMAIN pureOut.records_by_category
                       /\ pureOut.records_by_category[l] = n

C5_Witness ==
    /\ pc = "stats_done" /\ Len(pureIn) = MaxStatRecords
    /\ \E i \in 1..Len(pureIn) : pureIn[i].record_category = "ALLERGY"
    /\ \E i \in 1..Len(pureIn) : pureIn[i].record_category = "Unknown"
    /\ \E i \in 1..Len(pureIn) : pureIn[i].record_category = "LAB"

NoStatementAnywhere(r) ==
    /\ \A i \in 1..Len(r.content) : r.content[i].type # "sql"
    /\ r.sql = AbsentKey
    /\ r.code = AbsentKey

\* C6: when the response holds no query-statement item and neither alternate
\* key, the call ends at the extraction with query_successful false and the
\* extraction error, and no statement was executed against the store.
C6_NoStatementNoExecution ==
    [][ (pc = "extract" /\ NoStatementAnywhere(call.response)) =>
            /\ pc' = "idle"
            /\ result' = ExtractionError(call.query, call.response)
            /\ ~result'.flag /\ result'.error = ExtractionMsg
            /\ ~Has(events', "query_connect") /\ ~Has(events', "query_execute")
      ]_vars

C6_Witness ==
    /\ pc = "idle" /\ result.op = "query" /\ result.error = ExtractionMsg
    /\ NoStatementAnywhere(result.body.cortex_response)
    /\ Len(result.body.cortex_response.content) = MaxItems

\* C7: an existing directory without any matching file ends the import with
\* success false and the no-source-files error; no connection is opened and the
\* tables are untouched.
C7_NoSourceFiles ==
    [][ (pc = "scan" /\ dir.exists /\ dir.files = <<>>) =>
            /\ pc' = "idle"
            /\ result' = ImportError(NoSourceFilesMsg)
            /\ events' = <<>>
            /\ conn'.state = "none"
            /\ store' = store
      ]_vars

C7_Witness ==
    /\ ImportEnded /\ ~result.flag /\ result.error = NoSourceFilesMsg
    /\ events = <<>> /\ conn.state = "none"

FromFile(records, j) == {i \in 1..Len(records) : records[i].source_file = j}

\* C8: a file whose reading or processing fails contributes no record; every
\* other file read so far contributes one record per entry, and all files are
\* read before the records are written; an empty batch is returned as a
\* failure and nothing is inserted, finalized or committed for it.
C8_SkipFailedFiles ==
    /\ pc \in {"files", "bulk", "update", "commit", "close"} =>
          \A j \in 1..Len(dir.files) :
              LET f == dir.files[j]
                  mine == FromFile(call.all_records, j)
              IN  IF j < call.idx /\ f.fault = "none"
                  THEN /\ Cardinality(mine) = Len(f.data)
                       /\ {call.all_records[i].record_category : i \in mine}
                             = {CategoryOf(f.data[k].section) : k \in 1..Len(f.data)}
                  ELSE mine = {}
    /\ pc \in {"bulk", "update", "commit"} =>
          call.idx = Len(dir.files) + 1 /\ call.all_records # <<>>
    /\ (pc = "close" /\ ~call.pending.exc /\ call.all_records = <<>>) =>
          call.pending.value = ImportError(NoRecordsMsg)
    /\ (ImportEnded /\ result.error = NoRecordsMsg) =>
          /\ ~result.flag
          /\ ~Has(events, "bulk_insert") /\ ~Has(events, "update_import")
          /\ ~Has(events, "commit")

C8_Witness ==
    /\ pc = "bulk" /\ Len(dir.files) = 2
    /\ dir.files[1].fault = "clinical" /\ dir.files[1].data # <<>>
    /\ dir.files[2].fault = "none"
    /\ Len(call.all_records) = Len(dir.files[2].data)

\* A header as the claim reads it: it names the patient with a non-empty
\* string and its date of birth parses.
NamedAndDated(file) ==
    /\ file.fault # "load" /\ file.header.has_header
    /\ file.header.Patient_Name \notin {AbsentName, ""}
    /\ parse_date(file.header.Date_Of_Birth) # NoDate

\* C9: the resolution uses the first file, in discovery order, whose header
\* gives a non-empty name and a parseable date of birth, and reports missing
\* patient information exactly when no file does; a header without a name
\* never qualifies.
C9_FirstNamedHeader ==
    (pc = "resolve_done" /\ pureIn # <<>>) =>
        LET q == {j \in 1..Len(pureIn) : NamedAndDated(pureIn[j])}
        IN  /\ (pureOut.error = MissingPatientMsg) <=> (q = {})
            /\ q # {} =>
                  LET j == CHOOSE k \in q : \A m \in q : k <= m
                  IN  pureOut.info =
                          [patient_identity |-> pureIn[j].header.Patient_Name,
                           date_of_birth |-> parse_date(pureIn[j].header.Date_Of_Birth)]

\* C10: any two imports that returned success created two different patient
\* rows and two different import-run rows, also for the same identity, and the
\* health records of a run carry that run's patient id and import id only.
C10_NoDedup ==
    /\ \A i, j \in 1..Len(runs) :
          i # j => /\ runs[i].patient_id # runs[j].patient_id
                   /\ runs[i].import_id # runs[j].import_id
    /\ \A i \in 1..Len(runs) :
          /\ Cardinality({p \in store.PATIENTS : p.PATIENT_ID = runs[i].patient_id}) = 1
          /\ Cardinality({r \in store.IMPORTS : r.IMPORT_ID = runs[i].import_id}) = 1
          /\ \A r \in store.IMPORTS :
                r.IMPORT_ID = runs[i].import_id => r.PATIENT_ID = runs[i].patient_id
          /\ \A h \in store.HEALTH_RECORDS :
                (h.import_id = runs[i].import_id) <=> (h.patient_id = runs[i].patient_id)
          /\ Cardinality(RecordsOf(store, runs[i].import_id)) = runs[i].total_records

C10_Witness ==
    /\ Len(runs) = 2
    /\ runs[1].directory = runs[2].directory
    /\ runs[1].patient_name = runs[2].patient_name
    /\ runs[1].patient_dob = runs[2].patient_dob
    /\ runs[1].total_records = runs[2].total_records
    /\ Cardinality({p \in store.PATIENTS : p.PATIENT_IDENTITY = runs[1].patient_name}) = 2
    /\ Cardinality({r \in store.IMPORTS : r.IMPORT_STATUS = "COMPLETED"}) = 2

\* C11: every health record produced in an import run carries the patient id
\* and the run id created at the start of that same run, whichever extractor
\* and whichever source file produced it; so every stored record belongs to
\* exactly one stored run and, through it, to exactly one stored patient.
OwnedBy(tables, r) ==
    /\ Cardinality({m \in tables.IMPORTS : m.IMPORT_ID = r.import_id}) = 1
    /\ \A m \in tables.IMPORTS : m.IMPORT_ID = r.import_id => m.PATIENT_ID = r.patient_id
    /\ Cardinality({q \in tables.PATIENTS : q.PATIENT_ID = r.patient_id}) = 1

C11_RecordsCarryRunIds ==
    /\ \A i \in 1..Len(call.all_records) :
          /\ call.all_records[i].patient_id = call.patient_id
          /\ call.all_records[i].import_id = call.import_id
    /\ \A r \in store.HEALTH_RECORDS : OwnedBy(store, r)
    /\ \A r \in conn.view.HEALTH_RECORDS : OwnedBy(conn.view, r)

\* Two files, read by two different extractors, have been written by one run.
C11_Witness ==
    /\ pc = "update" /\ Has(events, "bulk_insert")
    /\ \E i, j \in 1..Len(call.all_records) :
          /\ call.all_records[i].source_file # call.all_records[j].source_file
          /\ call.all_records[i].record_category = "VITAL"
          /\ call.all_records[j].record_category
                 \in {"CONDITION", "PROCEDURE", "ALLERGY", "IMMUNIZATION"}
          /\ {Row(call.all_records[i]), Row(call.all_records[j])} \subseteq store.HEALTH_RECORDS

\* C12: for a record of any category the numeric value field is populated
\* only when the raw value string satisfies the numeric predicate (stripped of
\* whitespace, only digits, '.' and '-' remain and at least one digit does);
\* whatever the value, the record is still emitted.
NumericPredicate(value) ==
    /\ value # AbsentStr
    /\ \A i \in 1..Len(Strip(value)) : Strip(value)[i] \in Digits \cup {".", "-"}
    /\ \E i \in 1..Len(Strip(value)) : Strip(value)[i] \in Digits

C12_NumericOnlyWhenPredicate ==
    pc = "extract_done" =>
        /\ Len(pureOut) = 1
        /\ pureOut[1].value_numeric.kind # "none" => NumericPredicate(pureIn.value)

\* C13: for every record list, data_quality.records_with_dates.count is the
\* number of records whose record date is not null, and its total is the
\* number of records.
C13_RecordsWithDates ==
    pc = "stats_done" =>
        /\ pureOut.data_quality.records_with_dates.count
             = Len(SelectSeq(pureIn, LAMBDA r : r.record_date # NoDate))
        /\ pureOut.data_quality.records_with_dates.total = Len(pureIn)

\* A list holding a dated record that is not a lab result, and an undated one.
C13_Witness ==
    /\ pc = "stats_done"
    /\ \E i, j \in 1..Len(pureIn) :
          /\ pureIn[i].record_date # NoDate /\ pureIn[i].record_category = "VITAL"
          /\ pureIn[j].record_date = NoDate
    /\ pureOut.data_quality.records_with_dates.count \in 1..(Len(pureIn) - 1)

\* C14: one query call is a single pass without retries: the translation
\* service is called at most once and the statement is executed at most once,
\* the steps happen in the order build assertion, call translation service,
\* extract query, execute, normalize, classify, and a failure at a step ends
\* the call before any later step (a failed translation call means that no
\* statement is executed).
QueryStepRank(e) ==
    CASE e = "build_assertion" -> 1
      [] e = "cortex_request" -> 2
      [] e = "extract_query" -> 3
      [] e = "query_connect" -> 4
      [] e = "query_execute" -> 5
      [] e = "normalize" -> 6
      [] e \in {"query_close", "query_close_failed"} -> 7
      [] e = "classify" -> 8

QueryEnded == pc = "idle" /\ result.op = "query"

C14_SinglePass ==
    (pc \in {"cortex", "extract", "execute"} \/ QueryEnded) =>
        /\ \A i, j \in 1..Len(events) :
              i < j => QueryStepRank(events[i]) < QueryStepRank(events[j])
        /\ (QueryEnded /\ result.error = CortexFailedMsg) =>
              \A i \in 1..Len(events) : QueryStepRank(events[i]) <= 2
        /\ (QueryEnded /\ result.error = ExtractionMsg) =>
              \A i \in 1..Len(events) : QueryStepRank(events[i]) <= 3
        /\ (QueryEnded /\ result.error = SqlFailedMsg) =>
              ~Has(events, "normalize") /\ ~Has(events, "classify")
        /\ (QueryEnded /\ result.flag) =>
              events = <<"build_assertion", "cortex_request", "extract_query",
                         "query_connect", "query_execute", "normalize", "query_close",
                         "classify">>

\* The translation service was reached and answered with an error.
C14_Witness ==
    /\ QueryEnded /\ result.error = CortexFailedMsg
    /\ events = <<"build_assertion", "cortex_request">>

\* ---------------------------------------------------------------- claim C15
\* The shape tests of the claim, read off the string alone.
HyphenShape(s) == Len(s) = 10 /\ \E i \in 1..Len(s) : s[i] = "-"

SlashShape(s) == Len(s) = 10 /\ ~HyphenShape(s) /\ \E i \in 1..Len(s) : s[i] = "/"

\* C15: the date parser never raises: a missing or empty input gives no date;
\* a string of 10 characters with a hyphen is read as YYYY-MM-DD and nothing
\* else; otherwise one of 10 characters with a slash is read as MM/DD/YYYY
\* and nothing else; every other string is read as an ISO-8601 timestamp with
\* Z as UTC; a string its branch rejects gives no date, whatever a later
\* branch would have made of it.
C15_ParseDateTotal ==
    pc = "date_done" =>
        /\ pureOut.raised = FALSE
        /\ pureIn \in {AbsentStr, <<>>, NotAString} => pureOut.value = NoDate
        /\ pureIn \notin {AbsentStr, <<>>, NotAString} =>
               pureOut.value = IF HyphenShape(pureIn) THEN StrptimeYMD(pureIn)
                               ELSE IF SlashShape(pureIn) THEN StrptimeMDY(pureIn)
                               ELSE FromIsoFormat(ReplaceZ(pureIn))

\* A hyphenated 10-character string that is no YYYY-MM-DD date but a valid
\* ISO week date was parsed, with no date as the result.
C15_Witness ==
    /\ pc = "date_done"
    /\ HyphenShape(pureIn)
    /\ StrptimeYMD(pureIn) = NoDate
    /\ FromIsoFormat(ReplaceZ(pureIn)) # NoDate
    /\ pureOut.value = NoDate
    /\ pureOut.raised = FALSE

\* ---------------------------------------------------------------- claim C16
\* The statements of the query-statement items of a response, and the texts
\* of its narrative items joined in order, each closed by a blank line.
ItemStatements(response) ==
    IF response.has_message
    THEN {response.content[i].statement : i \in {j \in 1..Len(response.content) :
              /\ response.content[j].type = "sql"
              /\ response.content[j].statement \notin {AbsentKey, ""}}}
    ELSE {}

RECURSIVE JoinTexts(_)
JoinTexts(items) ==
    IF items = <<>> THEN <<>>
    ELSE (IF Head(items).type # "text" THEN <<>>
          ELSE IF Head(items).text = AbsentStr THEN <<"\n", "\n">>
          ELSE Head(items).text \o <<"\n", "\n">>) \o JoinTexts(Tail(items))

TopLevelStatement(response) ==
    IF response.sql # AbsentKey THEN response.sql
    ELSE IF response.code # AbsentKey THEN response.code
    ELSE ""

\* C16: the extraction uses the statement of one query-statement item of the
\* content whenever an item carries one, and the interpretation is the texts
\* of the narrative items in order; the top-level keys "sql", then "code",
\* are used only when no content item carries a statement, and the extraction
\* fails only when neither the items nor the keys give one.
C16_Extraction ==
    /\ pc = "execute" =>
           /\ ItemStatements(call.response) # {} => call.sql \in ItemStatements(call.response)
           /\ ItemStatements(call.response) = {} => call.sql = TopLevelStatement(call.response)
           /\ call.interpretation = JoinTexts(IF call.response.has_message
                                              THEN call.response.content ELSE <<>>)
    /\ (result.op = "query" /\ result.error = ExtractionMsg) =>
           /\ ItemStatements(result.body.cortex_response) = {}
           /\ TopLevelStatement(result.body.cortex_response) = ""

\* ---------------------------------------------------------------- claim C17
\* The classification rules in their fixed order: keywords, focus, category.
TopicRules ==
    <<[words |-> {<<"c", "h", "o", "l", "e", "s", "t", "e", "r", "o", "l">>}, focus |-> "cardiovascular",
       category |-> "lab_results"],
      [words |-> {<<"m", "e", "d", "i", "c", "a", "t", "i", "o", "n">>}, focus |-> "treatment",
       category |-> "medications"],
      [words |-> {<<"b", "l", "o", "o", "d", " ", "p", "r", "e", "s", "s", "u", "r", "e">>},
       focus |-> "cardiovascular", category |-> "vitals"],
      [words |-> {<<"h", "b", "a", "1", "c">>, <<"g", "l", "u", "c", "o", "s", "e">>},
       focus |-> "diabetes", category |-> "lab_results"],
      [words |-> {<<>>}, focus |-> "general", category |-> "general"]>>

FirstRule(query) ==
    TopicRules[CHOOSE i \in DOMAIN TopicRules :
                   /\ \E w \in TopicRules[i].words : HasSub(Lower(query), w)
                   /\ \A j \in 1..(i - 1) :
                          \A w \in TopicRules[j].words : ~HasSub(Lower(query), w)]

\* C17: every query whose statement was executed successfully returns data
\* metrics with one topic: the focus and category of the first rule, in the
\* order cholesterol, medication, blood pressure, hba1c or glucose, general,
\* that the lowercased query text matches.
C17_TopicClassification ==
    (result.op = "query" /\ result.flag) =>
        /\ {"data_category", "health_focus"} \subseteq DOMAIN result.body.data_metrics
        /\ result.body.data_metrics.data_category = FirstRule(result.body.query).category
        /\ result.body.data_metrics.health_focus = FirstRule(result.body.query).focus

\* ---------------------------------------------------------------- claim C18
\* C18: the summary of a result carries the number of its rows; its
\* numeric-data flag is true exactly when some value of some row is a number;
\* its date-data flag is true exactly when some column name contains "date"
\* in any capitalisation.
C18_SummaryFlags ==
    pc = "results_done" =>
        /\ {"row_count", "has_numeric_data", "has_date_data"} \subseteq DOMAIN pureOut.data_metrics
        /\ pureOut.data_metrics.row_count = Len(pureIn.rows)
        /\ pureOut.data_metrics.has_numeric_data
               <=> \E i \in 1..Len(pureOut.results) : \E j \in 1..Len(pureOut.results[i]) :
                       pureOut.results[i][j].x.type \in {"int", "float"}
        /\ pureOut.data_metrics.has_date_data
               <=> \E j \in 1..Len(pureIn.columns) : HasSub(Lower(pureIn.columns[j]), <<"d", "a", "t", "e">>)

\* ---------------------------------------------------------------- claim C19
\* The account up to, not including, its first '.'.
BeforeFirstDot(s) ==
    IF \E i \in 1..Len(s) : s[i] = "."
    THEN SubSeq(s, 1, (CHOOSE i \in 1..Len(s) : s[i] = "." /\ \A j \in 1..(i - 1) : s[j] # ".") - 1)
    ELSE s

DotsToHyphens(s) == [i \in 1..Len(s) |-> IF s[i] = "." THEN "-" ELSE s[i]]

\* C19: the normalized account is the account, cut before its first '.'
\* unless it contains '.global', with every remaining '.' replaced by '-' and
\* upper-cased; it holds no '.', and normalizing it again changes nothing.
C19_AccountNormalization ==
    pc = "account_done" =>
        /\ pureOut = Upper(DotsToHyphens(IF HasSub(pureIn, <<".", "g", "l", "o", "b", "a", "l">>)
                                         THEN pureIn ELSE BeforeFirstDot(pureIn)))
        /\ \A i \in 1..Len(pureOut) : pureOut[i] # "."
        /\ clean_account_identifier(pureOut) = pureOut

\* C19, amended: an account that contains '.global' or begins with '.' is
\* kept whole, any other is cut before its first '.'; then every '.' is
\* replaced by '-' and the letters are upper-cased.  The result holds no '.',
\* and normalizing it again changes nothing.
C19_AccountNormalizationAmended ==
    pc = "account_done" =>
        /\ pureOut = Upper(DotsToHyphens(
                         IF HasSub(pureIn, <<".", "g", "l", "o", "b", "a", "l">>) \/ (pureIn # <<>> /\ pureIn[1] = ".")
                         THEN pureIn ELSE BeforeFirstDot(pureIn)))
        /\ \A i \in 1..Len(pureOut) : pureOut[i] # "."
        /\ clean_account_identifier(pureOut) = pureOut

\* An account that begins with '.', without '.global', was normalized: it was
\* not cut, its dots became hyphens.
C19_Witness ==
    /\ pc = "account_done"
    /\ Len(pureIn) > 1 /\ pureIn[1] = "."
    /\ ~HasSub(pureIn, <<".", "g", "l", "o", "b", "a", "l">>)
    /\ Len(pureOut) = Len(pureIn) /\ pureOut[1] = "-"

\* ---------------------------------------------------------------- claim C20
Temporal == {"date", "datetime", "time"}

\* What the claim lets a fetched value become.
NormalizedAs(x, y) ==
    /\ y.type \notin Temporal \cup {"Decimal"}
    /\ x.type \in Temporal => y.type = "str"
    /\ x.type = "Decimal" => y = [type |-> "float", v |-> x.v]
    /\ x.type \notin Temporal \cup {"Decimal"} => y = x

\* C20: the converted result has the rows of the fetched one, in the same
\* order, and in every row every column is paired with the conversion of the
\* value fetched for it: an ISO-8601 string for a temporal value, a float for
\* a decimal, the value itself otherwise; no temporal or decimal value is left.
C20_Normalization ==
    pc = "results_done" =>
        /\ Len(pureOut.results) = Len(pureIn.rows)
        /\ \A i \in 1..Len(pureIn.rows) : \A j \in 1..Len(pureIn.columns) :
               \E n \in 1..Len(pureOut.results[i]) :
                   /\ pureOut.results[i][n].k = pureIn.columns[j]
                   /\ NormalizedAs(pureIn.rows[i][j], pureOut.results[i][n].x)

\* ---------------------------------------------------------------------
\* C21
\* ---------------------------------------------------------------------

\* The positions of the dated records, and of the dated records of a year.
DatedAt(records) == {i \in 1..Len(records) : records[i].record_date # NoDate}

InYear(records, y) == {i \in DatedAt(records) : records[i].record_date[1] = y}

FirstOf(S) == CHOOSE i \in S : \A j \in S : i <= j

\* Year y ranks before year z: more records, or as many and seen first.
RanksBefore(records, y, z) ==
    \/ Cardinality(InYear(records, y)) > Cardinality(InYear(records, z))
    \/ /\ Cardinality(InYear(records, y)) = Cardinality(InYear(records, z))
       /\ FirstOf(InYear(records, y)) < FirstOf(InYear(records, z))

\* The year with exactly n years ranked before it.
RankedYear(records, n) ==
    LET years == {records[i].record_date[1] : i \in DatedAt(records)}
    IN  CHOOSE y \in years :
            Cardinality({z \in years : z # y /\ RanksBefore(records, z, y)}) = n

LabDates(records) ==
    {records[i].record_date :
        i \in {j \in DatedAt(records) : records[j].record_category = "LAB"}}

\* C21: key_insights holds, in this order, the most recent lab date (only
\* if a lab record has a date), the number of medication records dated on or
\* after 2024-01-01 (always), the two years with the most dated records,
\* equal counts in the order the years were first seen (only if a record has
\* a date), and the number of distinct non-empty lab item descriptions
\* (always).
C21_KeyInsightsOrder ==
    pc = "stats_done" =>
        LET out == pureOut.key_insights
            lab == IF LabDates(pureIn) = {} THEN 0 ELSE 1
            any == IF DatedAt(pureIn) = {} THEN 0 ELSE 1
            years == {pureIn[i].record_date[1] : i \in DatedAt(pureIn)}
        IN  /\ Len(out) = 2 + lab + any
            /\ lab = 1 =>
                   \E d \in LabDates(pureIn) :
                       /\ \A e \in LabDates(pureIn) : DateLeq(e, d)
                       /\ out[1] = <<"M", "o", "s", "t", " ", "r", "e", "c", "e", "n", "t", " ", "l", "a", "b", " ", "t", "e", "s", "t", ":", " ">>
                                   \o Pad(d[1], 4) \o <<"-">> \o Pad(d[2], 2)
                                   \o <<"-">> \o Pad(d[3], 2)
            /\ out[lab + 1] =
                   <<"R", "e", "c", "e", "n", "t", " ", "m", "e", "d", "i", "c", "a", "t", "i", "o", "n", "s", ":", " ">>
                   \o Str(Cardinality({i \in DatedAt(pureIn) :
                          /\ pureIn[i].record_category = "MEDICATION"
                          /\ DateLeq(<<2024, 1, 1>>, pureIn[i].record_date)}))
            /\ any = 1 =>
                   out[lab + 2] =
                       <<"Y", "e", "a", "r", "s", " ", "w", "i", "t", "h", " ", "m", "o", "s", "t", " ", "c", "o", "m", "p", "l", "e", "t", "e", " ", "d", "a", "t", "a", ":", " ">>
                       \o Str(RankedYear(pureIn, 0))
                       \o (IF Cardinality(years) > 1
                           THEN <<",", " ">> \o Str(RankedYear(pureIn, 1)) ELSE <<>>)
            /\ out[lab + any + 2] =
                   <<"T", "o", "t", "a", "l", " ", "u", "n", "i", "q", "u", "e", " ", "l", "a", "b", " ", "t", "e", "s", "t", "s", " ", "t", "r", "a", "c", "k", "e", "d", ":", " ">>
                   \o Str(Cardinality({pureIn[i].item_description :
                          i \in {j \in 1..Len(pureIn) :
                                    /\ pureIn[j].record_category = "LAB"
                                    /\ pureIn[j].item_description \notin {AbsentStr, <<>>}}}))

\* All four insights, with three years of one record each, so that the order
\* of first appearance decides the two years, and with two lab names and a
\* medication on the cutoff day.
C21_Witness ==
    /\ pc = "stats_done"
    /\ Len(pureIn) = 3
    /\ pureIn[1].record_category = "LAB" /\ pureIn[1].record_date = <<2025, 6, 1>>
    /\ pureIn[2].record_category = "MEDICATION" /\ pureIn[2].record_date = <<2024, 1, 1>>
    /\ pureIn[3].record_category = "LAB" /\ pureIn[3].record_date = <<2023, 12, 31>>
    /\ pureIn[1].item_description # pureIn[3].item_description
    /\ Truthy(pureIn[1].item_description) /\ Truthy(pureIn[3].item_description)
    /\ Len(pureOut.key_insights) = 4
    /\ pureOut.key_insights[3] = <<"Y", "e", "a", "r", "s", " ", "w", "i", "t", "h", " ", "m", "o", "s", "t", " ", "c", "o", "m", "p", "l", "e", "t", "e", " ", "d", "a", "t", "a", ":", " ", "2", "0", "2", "5", ",", " ", "2", "0", "2", "4">>

\* ---------------------------------------------------------------------
\* C22
\* ---------------------------------------------------------------------

\* The positions of the import between its connect and its return.
Connected == {"patient", "import", "files", "bulk", "update", "commit", "close"}

\* C22: a connection is open only inside the call that opened it.  A call
\* starts with no connection; when it has returned, every connection it
\* opened has been closed (the import's by its finally clause, whatever the
\* outcome; the query's by execute_query, after the statement if one was
\* run), and no call opens more than one.  A close that raised counts as a
\* close.
C22_ConnectionsClosed ==
    /\ conn.state = "open" => pc \in Connected
    /\ pc \in {"scan", "connect", "cortex", "extract", "execute"} =>
           /\ conn = NoConn
           /\ ~Has(events, "connect") /\ ~Has(events, "query_connect")
    /\ pc = "idle" =>
           /\ Occurrences(events, "connect") <= 1
           /\ Occurrences(events, "connect")
                  = Occurrences(events, "close") + Occurrences(events, "close_failed")
           /\ Has(events, "connect") => conn.state = "closed"
           /\ Occurrences(events, "query_connect") <= 1
           /\ Occurrences(events, "query_connect")
                  = Occurrences(events, "query_close")
                    + Occurrences(events, "query_close_failed")
           /\ \A i \in DOMAIN events :
                  events[i] \in {"query_execute", "normalize"} =>
                      /\ \E j \in 1..(i - 1) : events[j] = "query_connect"
                      /\ \E k \in (i + 1)..Len(events) :
                             events[k] \in {"query_close", "query_close_failed"}
           /\ \A i \in DOMAIN events :
                  events[i] \in {"insert_patient", "insert_import", "bulk_insert",
                                 "update_import", "commit"} =>
                      /\ \E j \in 1..(i - 1) : events[j] = "connect"
                      /\ \E k \in (i + 1)..Len(events) :
                             events[k] \in {"close", "close_failed"}

\* ---------------------------------------------------------------------
\* C23
\* ---------------------------------------------------------------------

WriteOrder == <<"insert_patient", "insert_import", "bulk_insert", "update_import", "commit">>

IsWrite(e) == e \in {WriteOrder[i] : i \in DOMAIN WriteOrder}

\* The rows of the run in progress, as its session sees them.
RunRows == {r \in conn.view.IMPORTS : r.IMPORT_ID = call.import_id}

\* C23: the writes of an import run are, in this order and each at most
\* once, the patient insert, the import-run insert (IN_PROGRESS), one batched
\* insert of all the health records, the update of the run to COMPLETED and
\* the commit (a run that fails or returns early has done the first few of
\* them).  No file is processed into records before the patient and the
\* import-run rows are written, and every health record present has its
\* patient row and its import-run row beside it.
C23_WriteOrder ==
    /\ LET writes == SelectSeq(events, IsWrite)
       IN  /\ Len(writes) <= Len(WriteOrder)
           /\ writes = SubSeq(WriteOrder, 1, Len(writes))
    /\ (call.idx > 1 \/ call.all_records # <<>>) =>
           /\ SubSeq(events, 1, 3) = <<"connect", "insert_patient", "insert_import">>
           /\ \E p \in conn.view.PATIENTS : p.PATIENT_ID = call.patient_id
           /\ RunRows # {}
    /\ pc \in {"files", "bulk", "update"} =>
           /\ \A r \in RunRows : r.IMPORT_STATUS = "IN_PROGRESS"
           /\ pc # "update" =>
                  \A h \in conn.view.HEALTH_RECORDS : h.import_id # call.import_id
    /\ pc = "update" =>
           {h \in conn.view.HEALTH_RECORDS : h.import_id = call.import_id}
               = {Row(call.all_records[i]) : i \in 1..Len(call.all_records)}
    /\ pc = "commit" =>
           /\ RunRows # {}
           /\ \A r \in RunRows : r.IMPORT_STATUS = "COMPLETED"
    /\ \A tables \in {store, conn.view} :
           \A h \in tables.HEALTH_RECORDS :
               /\ \E p \in tables.PATIENTS : p.PATIENT_ID = h.patient_id
               /\ \E r \in tables.IMPORTS : r.IMPORT_ID = h.import_id

\* An import of two files with a record each has gone through all five writes.
C23_Witness ==
    /\ pc = "idle" /\ result.op = "import" /\ result.flag
    /\ result.body.total_records = 2
    /\ SelectSeq(events, IsWrite) = WriteOrder
    /\ Cardinality(store.HEALTH_RECORDS) = 2

\* ---------------------------------------------------------------------
\* C24
\* ---------------------------------------------------------------------

\* C24: an import-run row with status COMPLETED, in the committed tables or
\* in the session's view, has TOTAL_RECORDS >= 1 and at least one health
\* record of its run beside it; an import that returned success reports
\* total_records >= 1.
C24_CompletedHasRecords ==
    /\ \A tables \in {store, conn.view} :
           \A r \in tables.IMPORTS :
               r.IMPORT_STATUS = "COMPLETED" =>
                   /\ r.TOTAL_RECORDS >= 1
                   /\ \E h \in tables.HEALTH_RECORDS : h.import_id = r.IMPORT_ID
    /\ (ImportEnded /\ result.flag) => result.body.total_records >= 1
    /\ \A i \in 1..Len(runs) : runs[i].total_records >= 1

\* After a run that completed with a single record, a run that found no
\* record has returned its error and left its row IN_PROGRESS.
C24_Witness ==
    /\ ImportEnded /\ calls = 2
    /\ result.error = NoRecordsMsg
    /\ Len(runs) = 1 /\ runs[1].total_records = 1
    /\ \E r \in store.IMPORTS : r.IMPORT_STATUS = "COMPLETED" /\ r.TOTAL_RECORDS = 1
    /\ \E r \in store.IMPORTS : r.IMPORT_STATUS = "IN_PROGRESS"

\* ---------------------------------------------------------------------
\* C25
\* ---------------------------------------------------------------------

\* C25: when the directory does not exist, or no source file has a header
\* that gives both a name and a parseable date of birth, the import returns
\* success = false from its checks: no connection is opened and no patient,
\* import-run or health-record write is issued.
C25_FailsBeforeConnecting ==
    [][ (pc = "scan" /\ (~dir.exists \/ \A j \in 1..Len(dir.files) : ~NamedAndDated(dir.files[j])))
            => /\ pc' = "idle"
               /\ result'.op = "import" /\ ~result'.flag
               /\ result'.error \in {DirNotFoundMsg, NoSourceFilesMsg, MissingPatientMsg}
               /\ conn' = NoConn
               /\ store' = store
               /\ events' = <<>> ]_vars

====
